---- MODULE Spec2Model ----
(***************************************************************************)
(* Retrieval-and-generation orchestration layer of doc-rag-feature:        *)
(* app/api/qa.py (query_docs, generate_suggestions_from_retriever,         *)
(* get_retriever_for_session), app/api/files.py (upload_files),            *)
(* app/services/groq_llm.py (chat_get_text, build_suggestion_prompt) and   *)
(* app/db/supabase_client.py (save_chat_message, get_session_messages).    *)
(*                                                                         *)
(* A text is a sequence of one-character strings.  An Optional[List] is a  *)
(* record [present, items]: None is [present |-> FALSE, items |-> <<>>].   *)
(***************************************************************************)
EXTENDS Integers, Sequences, FiniteSets, TLC

VARIABLES
    history,        \* rows of chat_messages of the session, in created_at order
    index,          \* passages held by the session's vector collection
    session_files,  \* rows of session_files of the session
    req,            \* per request slot: the handler's local state
    turns,          \* number of query_docs requests started so far
    p_resp,         \* parser development: a backend response text
    p_out,          \* parser development: the suggestions parsed from it
    p_pc,           \* parser development: "input" or "parsed"
    mcq,            \* the local state of the generate_mcq request
    bal             \* balancer development: a ranked passage list and its contexts

vars == <<history, index, session_files, req, turns, p_resp, p_out, p_pc, mcq, bal>>
mainVars == <<history, index, session_files, req, turns>>
parseVars == <<p_resp, p_out, p_pc, bal>>
mcqVars == <<mcq>>

(***************************************************************************)
(* Bounds of the model                                                     *)
(***************************************************************************)
\* query_docs requests started in one behaviour
MaxTurns == 1
\* query_docs requests started in one behaviour of the longer conversation
MaxHistoryTurns == 2
\* length of an exhaustively enumerated backend response
MaxRespLen == 5
\* number of lines of an enumerated many-line backend response
MaxLines == 4
\* largest item count asked of generate_mcq
MaxQuizCount == 2

(***************************************************************************)
(* Program constants                                                       *)
(***************************************************************************)
TOP_K == 15
InitialK == 20
HistoryLimit == 6
MaxSuggestions == 3
MaxAssistantChars == 500
max_chunks_per_file == 10
max_total_chunks == 30
DefaultCount == 5
ExcerptChars == 600
MAX_CONTEXT == 5000

(***************************************************************************)
(* Generic sequence helpers                                                *)
(***************************************************************************)
Range(s) == {s[i] : i \in 1..Len(s)}

MinOf(S) == CHOOSE x \in S : \A y \in S : x <= y

MaxOf(S) == CHOOSE x \in S : \A y \in S : x >= y

Reverse(s) == [i \in 1..Len(s) |-> s[Len(s) + 1 - i]]

\* s[:n] of Python, n >= 0
Take(s, n) == SubSeq(s, 1, IF n < Len(s) THEN n ELSE Len(s))

\* s[-n:] of Python, n > 0
LastN(s, n) == SubSeq(s, IF Len(s) > n THEN Len(s) - n + 1 ELSE 1, Len(s))

\* all orderings of the finite set S, each element once
Perms(S) == {s \in [1..Cardinality(S) -> S] : \A i, j \in 1..Cardinality(S) : s[i] = s[j] => i = j}

RECURSIVE Flatten(_)
Flatten(ss) == IF ss = <<>> THEN <<>> ELSE Head(ss) \o Flatten(Tail(ss))

\* sep.join(parts) of Python, parts a sequence of texts
RECURSIVE JoinWith(_, _)
JoinWith(parts, sep) ==
    IF parts = <<>> THEN <<>>
    ELSE IF Len(parts) = 1 THEN parts[1]
    ELSE parts[1] \o sep \o JoinWith(Tail(parts), sep)

(***************************************************************************)
(* Python str methods used by the suggestion parser                        *)
(***************************************************************************)
\* characters str.strip() removes, among those the model's texts hold
Whitespace == {" ", "\t", "\n"}

\* the argument of lstrip at qa.py:126 ("bullet" stands for U+2022)
EnumerationMarkers == {"0", "1", "2", "3", "4", "5", "6", "7", "8", "9", ".", "-", "bullet", ")", " ", "\t"}

\* s.lstrip(chars)
LStrip(s, chars) ==
    LET keep == {i \in 1..Len(s) : s[i] \notin chars}
    IN IF keep = {} THEN <<>> ELSE SubSeq(s, MinOf(keep), Len(s))

\* s.strip()
Strip(s) ==
    LET keep == {i \in 1..Len(s) : s[i] \notin Whitespace}
    IN IF keep = {} THEN <<>> ELSE SubSeq(s, MinOf(keep), MaxOf(keep))

\* s.splitlines(): the lines between "\n", no empty line after a final "\n"
RECURSIVE SplitLinesFrom(_, _, _)
SplitLinesFrom(s, i, cur) ==
    IF i > Len(s) THEN (IF cur = <<>> THEN <<>> ELSE <<cur>>)
    ELSE IF s[i] = "\n" THEN <<cur>> \o SplitLinesFrom(s, i + 1, <<>>)
    ELSE SplitLinesFrom(s, i + 1, Append(cur, s[i]))

SplitLines(s) == SplitLinesFrom(s, 1, <<>>)

(***************************************************************************)
(* generate_suggestions_from_retriever, lines 121-130: the output parser   *)
(***************************************************************************)
\* the mutant of clean_line: the line is trimmed and its markers are kept
clean_line_keeps_markers(line) == Strip(line)

\* lines 123-126: line.strip() then lstrip of the enumeration markers;
\* an empty stripped line stays empty
clean_line(line) == LStrip(Strip(line), EnumerationMarkers)

\* the mutant of first_suggestions: the list is returned whole
first_suggestions_untruncated(suggestions) == suggestions

\* line 130: suggestions[:3]
first_suggestions(suggestions) == Take(suggestions, MaxSuggestions)

\* lines 121-128: the non-empty cleaned lines, in response order
cleaned_lines(resp) ==
    LET lines == SplitLines(resp)
        cleaned == [i \in 1..Len(lines) |-> clean_line(lines[i])]
    IN SelectSeq(cleaned, LAMBDA c : c # <<>>)

\* lines 121-130
parse_suggestions(resp) == first_suggestions(cleaned_lines(resp))

(***************************************************************************)
(* Data of the session model                                               *)
(***************************************************************************)
Procs == {1, 2}

Files == {"a", "b"}

\* Optional[List]: None, and a list that is present
NoneList == [present |-> FALSE, items |-> <<>>]

Some(items) == [present |-> TRUE, items |-> items]

\* truth value of an Optional[List] in Python: None and [] are false
Truthy(opt) == opt.present /\ opt.items # <<>>

\* the questions a caller asks
Queries == {<<"q", "1">>, <<"q", "2">>}

\* the files argument of a request
FileArgs == {NoneList, Some(<<>>), Some(<<"a">>), Some(<<"b">>), Some(<<"a", "b">>)}

\* the passages ingest_documents stores for an uploaded file (ingest.py:64-78):
\* file a is split into two chunks, file b into one
ChunksOf(f) ==
    IF f = "a"
    THEN {[page_content |-> <<"a", "1">>, source |-> "a"], [page_content |-> <<"a", "2">>, source |-> "a"]}
    ELSE {[page_content |-> <<f, "1">>, source |-> f]}

\* qa.py:64 and 68, the fixed broad probe (abbreviated)
BroadProbe == <<"t", "o", "p", "i", "c", "s">>

\* qa.py:172, the fixed fallback answer (abbreviated)
FallbackAnswer == <<"n", "o", "t", " ", "f", "o", "u", "n", "d">>

\* qa.py:106, the separator of the suggestion context, as one character
DocumentSeparator == <<"\n-----DOCUMENT-----\n">>

(***************************************************************************)
(* groq_llm.py: GroqChatService.chat_get_text                              *)
(***************************************************************************)
\* groq_llm.py:44 and 47, the inline error strings (abbreviated)
TransportError == <<"E", "r", "r", "o", "r", ":", " ", "n", "o", " ", "r", "e", "s", "p", "o", "n", "s", "e">>

StructureError == <<"E", "r", "r", "o", "r", ":", " ", "i", "n", "v", "a", "l", "i", "d">>

\* a completion of the backend: " 1. x" / "2) y" / "(3) z" / "- w"
ListContent ==
    <<" ", "1", ".", " ", "x", "\n", "2", ")", " ", "y", "\n", "(", "3", ")", " ", "z", "\n", "-", " ", "w", "\n">>

\* what one call of the backend can do: answer; fail in transport
\* (RequestException); answer with a body whose reading raises KeyError,
\* IndexError or AttributeError; answer with a body whose reading raises
\* another error ("choices": null gives TypeError at line 40)
ChatOutcomes ==
    {[kind |-> "ok", content |-> ListContent],
     [kind |-> "transport", content |-> <<>>],
     [kind |-> "structure", content |-> <<>>],
     [kind |-> "type_error", content |-> <<>>]}

Returned(text) == [raised |-> FALSE, text |-> text]

Raised == [raised |-> TRUE, text |-> <<>>]

\* the mutant of chat_get_text: a transport failure gives an empty text
chat_get_text_transport_empty(outcome) ==
    IF outcome.kind = "ok" THEN Returned(Strip(outcome.content))
    ELSE IF outcome.kind = "transport" THEN Returned(<<>>)
    ELSE IF outcome.kind = "structure" THEN Returned(StructureError)
    ELSE Raised

\* the mutant of chat_get_text: a transport failure is not caught
chat_get_text_transport_raises(outcome) ==
    IF outcome.kind = "ok" THEN Returned(Strip(outcome.content))
    ELSE IF outcome.kind = "structure" THEN Returned(StructureError)
    ELSE Raised

\* groq_llm.py:18-47: the text, an inline error string, or an error no except
\* clause names
chat_get_text(outcome) ==
    IF outcome.kind = "ok" THEN Returned(Strip(outcome.content))
    ELSE IF outcome.kind = "transport" THEN Returned(TransportError)
    ELSE IF outcome.kind = "structure" THEN Returned(StructureError)
    ELSE Raised

(***************************************************************************)
(* supabase_client.py: the chat_messages table                             *)
(***************************************************************************)
\* the mutant of save_chat_message: an upsert keyed by the role, which replaces
\* the newest row when it has the same role
save_chat_message_upsert(rows, role, message, sources, turn) ==
    LET row == [role |-> role, message |-> message, sources |-> sources, turn |-> turn]
    IN IF rows # <<>> /\ rows[Len(rows)].role = role
       THEN [rows EXCEPT ![Len(rows)] = row]
       ELSE Append(rows, row)

\* the mutant of save_chat_message: the insert is built and not executed
save_chat_message_not_executed(rows, role, message, sources, turn) == rows

\* supabase_client.py:6-14; turn records the request that wrote the row
save_chat_message(rows, role, message, sources, turn) ==
    Append(rows, [role |-> role, message |-> message, sources |-> sources, turn |-> turn])

\* the mutant of get_session_messages: the oldest rows of the session
get_session_messages_oldest(rows, limit) == Reverse(Take(rows, limit))

\* supabase_client.py:16-23: order by created_at descending, limit
get_session_messages(rows, limit) == Reverse(LastN(rows, limit))

\* qa.py:203-209: each row becomes {'role', 'content'}
normalize_history(rows) ==
    [i \in 1..Len(rows) |-> [role |-> rows[i].role, content |-> rows[i].message, turn |-> rows[i].turn]]

(***************************************************************************)
(* qa.py: get_retriever_for_session and the scoped search                  *)
(***************************************************************************)
\* balancer development: no list given
NoBalance == [pc |-> "unused", docs |-> <<>>, out |-> <<>>]

\* the mutant of get_retriever_for_session: 'must' whatever the number of files
get_retriever_always_must(files, k) ==
    IF Truthy(files)
    THEN [has_filter |-> TRUE, must |-> files.items, should |-> <<>>, k |-> k]
    ELSE [has_filter |-> FALSE, must |-> <<>>, should |-> <<>>, k |-> k]

\* qa.py:23-49: must and should hold the values the source must match
get_retriever_for_session(files, k) ==
    IF Truthy(files)
    THEN IF Len(files.items) = 1
         THEN [has_filter |-> TRUE, must |-> files.items, should |-> <<>>, k |-> k]
         ELSE [has_filter |-> TRUE, must |-> <<>>, should |-> files.items, k |-> k]
    ELSE [has_filter |-> FALSE, must |-> <<>>, should |-> <<>>, k |-> k]

\* the vector index's reading of the filter built at qa.py:33-43: every must
\* condition holds, and one should condition holds when there is any
Matches(doc, retriever) ==
    \/ ~retriever.has_filter
    \/ /\ \A i \in 1..Len(retriever.must) : doc.source = retriever.must[i]
       /\ \/ retriever.should = <<>>
          \/ \E i \in 1..Len(retriever.should) : doc.source = retriever.should[i]

\* the relevance orders a query can give the passages of files a and b
Rankings ==
    {<<[page_content |-> <<"a", "1">>, source |-> "a"], [page_content |-> <<"b", "1">>, source |-> "b"],
       [page_content |-> <<"a", "2">>, source |-> "a"]>>,
     <<[page_content |-> <<"b", "1">>, source |-> "b"], [page_content |-> <<"a", "2">>, source |-> "a"],
       [page_content |-> <<"a", "1">>, source |-> "a"]>>}

\* retriever.invoke: the k nearest passages of the collection that match the
\* filter, nearest first
search(idx, retriever) ==
    {Take(SelectSeq(rk, LAMBDA d : d \in idx /\ Matches(d, retriever)), retriever.k) : rk \in Rankings}

\* a retrieval returns its passages or raises (index unreachable)
RetrievalOutcomes(idx, retriever) ==
    {[raised |-> TRUE, docs |-> <<>>]} \cup {[raised |-> FALSE, docs |-> d] : d \in search(idx, retriever)}

page_contents(docs) == [i \in 1..Len(docs) |-> docs[i].page_content]

\* qa.py:179
filenames_of(docs) == [i \in 1..Len(docs) |-> docs[i].source]

(***************************************************************************)
(* qa.py:75-102: balancing the contexts of initial suggestions             *)
(***************************************************************************)
\* keys of docs_by_source, in order of first appearance
RECURSIVE SourceOrder(_, _)
SourceOrder(docs, seen) ==
    IF docs = <<>> THEN <<>>
    ELSE IF Head(docs).source \in seen THEN SourceOrder(Tail(docs), seen)
    ELSE <<Head(docs).source>> \o SourceOrder(Tail(docs), seen \cup {Head(docs).source})

\* the mutant of docs_by_source: the groups are not cut
docs_by_source_uncut(docs) ==
    [src \in Range(filenames_of(docs)) |->
        page_contents(SelectSeq(docs, LAMBDA d : d.source = src))]

\* lines 77-86: the page contents of each source, cut to max_chunks_per_file
docs_by_source(docs) ==
    [src \in Range(filenames_of(docs)) |->
        Take(page_contents(SelectSeq(docs, LAMBDA d : d.source = src)), max_chunks_per_file)]

\* lines 94-100: one pass of the for loop over the keys, from key i
RECURSIVE Sweep(_, _, _, _, _)
Sweep(keys, queues, out, added, i) ==
    IF i > Len(keys) THEN [queues |-> queues, out |-> out, added |-> added]
    ELSE IF queues[keys[i]] # <<>>
         THEN LET out2 == Append(out, Head(queues[keys[i]]))
                  q2 == [queues EXCEPT ![keys[i]] = Tail(@)]
              IN IF Len(out2) >= max_total_chunks
                 THEN [queues |-> q2, out |-> out2, added |-> TRUE]
                 ELSE Sweep(keys, q2, out2, TRUE, i + 1)
         ELSE Sweep(keys, queues, out, added, i + 1)

\* lines 92-100: the while loop
RECURSIVE BalanceLoop(_, _, _, _)
BalanceLoop(keys, queues, out, added) ==
    IF added /\ Len(out) < max_total_chunks
    THEN LET r == Sweep(keys, queues, out, FALSE, 1)
         IN BalanceLoop(keys, r.queues, r.out, r.added)
    ELSE out

\* lines 76-102
balanced_contexts(docs) == BalanceLoop(SourceOrder(docs, {}), docs_by_source(docs), <<>>, TRUE)

(***************************************************************************)
(* groq_llm.py: build_suggestion_prompt                                    *)
(***************************************************************************)
\* the mutant of prompt_is_initial: a history of one message is a follow-up
prompt_is_initial_below_one(hist) == ~Truthy(hist) \/ Len(hist.items) < 1

\* groq_llm.py:101
prompt_is_initial(hist) == ~Truthy(hist) \/ Len(hist.items) < 2

\* groq_llm.py:159
truncate_assistant(text) ==
    IF Len(text) > MaxAssistantChars THEN SubSeq(text, 1, MaxAssistantChars) \o <<".", ".", ".">> ELSE text

\* the mutant of conversation_pairs: a user message is paired with the next
\* message, whatever its role
RECURSIVE conversation_pairs_any_next(_, _)
conversation_pairs_any_next(h, i) ==
    IF i >= Len(h) THEN <<>>
    ELSE IF h[i].role = "user"
         THEN <<[user |-> h[i].content, assistant |-> h[i + 1].content,
                 user_turn |-> h[i].turn, assistant_turn |-> h[i + 1].turn]>>
              \o conversation_pairs_any_next(h, i + 2)
         ELSE conversation_pairs_any_next(h, i + 1)

\* groq_llm.py:135-154: the scan that pairs a user message with the next message
RECURSIVE conversation_pairs(_, _)
conversation_pairs(h, i) ==
    IF i >= Len(h) THEN <<>>
    ELSE IF h[i].role = "user" /\ h[i + 1].role = "assistant"
         THEN <<[user |-> h[i].content, assistant |-> h[i + 1].content,
                 user_turn |-> h[i].turn, assistant_turn |-> h[i + 1].turn]>>
              \o conversation_pairs(h, i + 2)
         ELSE conversation_pairs(h, i + 1)

\* groq_llm.py:92-176: the system message by mode, the context, the turns shown
build_suggestion_prompt(context, hist) ==
    LET is_initial == prompt_is_initial(hist)
        pairs == IF ~is_initial /\ Truthy(hist) THEN conversation_pairs(hist.items, 1) ELSE <<>>
    IN [built |-> TRUE,
        system |-> IF is_initial THEN "initial" ELSE "follow-up",
        context |-> context,
        has_history |-> ~is_initial /\ Truthy(hist),
        turns |-> [i \in 1..Len(pairs) |-> [pairs[i] EXCEPT !.assistant = truncate_assistant(@)]]]

NoPrompt == [built |-> FALSE, system |-> "", context |-> <<>>, has_history |-> FALSE, turns |-> <<>>]

(***************************************************************************)
(* qa.py:52-130: generate_suggestions_from_retriever                       *)
(***************************************************************************)
\* the mutant of is_initial_suggestion: fewer than 4 messages are no history
is_initial_suggestion_below_four(hist) == ~Truthy(hist) \/ Len(hist.items) < 4

\* line 58
is_initial_suggestion(hist) == ~Truthy(hist) \/ Len(hist.items) < 2

\* line 59
retrieval_k(hist) == IF is_initial_suggestion(hist) THEN InitialK ELSE TOP_K

\* lines 63-68
search_query(hist) ==
    IF is_initial_suggestion(hist) THEN BroadProbe
    ELSE LET users == SelectSeq(hist.items, LAMBDA m : m.role = "user")
             all_user_queries == [i \in 1..Len(users) |-> users[i].content]
             recent_queries == IF all_user_queries # <<>> THEN LastN(all_user_queries, 3) ELSE <<>>
         IN IF recent_queries # <<>> THEN JoinWith(recent_queries, <<" ">>) ELSE BroadProbe

\* the mutant of no_top_docs: the generator goes on without passages
no_top_docs_ignored(top_docs) == FALSE

\* line 72
no_top_docs(top_docs) == top_docs = <<>>

\* the mutant of suggestion_contexts: the balancer in both modes
suggestion_contexts_always_balanced(hist, top_docs) == balanced_contexts(top_docs)

\* lines 75-104
suggestion_contexts(hist, top_docs) ==
    IF is_initial_suggestion(hist) THEN balanced_contexts(top_docs) ELSE page_contents(top_docs)

NoRun ==
    [called |-> FALSE, raised |-> FALSE, history |-> NoneList, files |-> NoneList,
     retriever |-> get_retriever_for_session(NoneList, 0), search_query |-> <<>>,
     top_docs |-> <<>>, prompt |-> NoPrompt, backend_called |-> FALSE, chat_kind |-> "",
     result |-> <<>>]

\* lines 52-130, for one outcome of the retrieval and one of the backend call:
\* what the call did, and the list it returned unless it raised
generate_suggestions_from_retriever(hist, files, retrieval, chat) ==
    LET base == [NoRun EXCEPT !.called = TRUE, !.history = hist, !.files = files,
                              !.retriever = get_retriever_for_session(files, retrieval_k(hist)),
                              !.search_query = search_query(hist)]
        resp == chat_get_text(chat)
    IN IF retrieval.raised THEN [base EXCEPT !.raised = TRUE]
       ELSE IF no_top_docs(retrieval.docs) THEN [base EXCEPT !.top_docs = retrieval.docs]
       ELSE [base EXCEPT
                !.top_docs = retrieval.docs,
                !.prompt = build_suggestion_prompt(
                               JoinWith(suggestion_contexts(hist, retrieval.docs), DocumentSeparator), hist),
                !.backend_called = TRUE,
                !.chat_kind = chat.kind,
                !.raised = resp.raised,
                !.result = IF resp.raised THEN <<>> ELSE parse_suggestions(resp.text)]

\* the retrievals generate_suggestions_from_retriever can see (lines 61 and 70)
SuggestionRetrievals(idx, hist, files) ==
    RetrievalOutcomes(idx, get_retriever_for_session(files, retrieval_k(hist)))

(***************************************************************************)
(* Request slots                                                           *)
(***************************************************************************)
NoResponse == [kind |-> "none", answer |-> <<>>, source_docs |-> <<>>, suggestions |-> <<>>, results |-> <<>>]

QueryResponse(answer, source_docs, suggestions) ==
    [kind |-> "QueryResponse", answer |-> answer, source_docs |-> source_docs,
     suggestions |-> suggestions, results |-> <<>>]

SuggestionResponse(suggestions) ==
    [kind |-> "SuggestionResponse", answer |-> <<>>, source_docs |-> <<>>,
     suggestions |-> suggestions, results |-> <<>>]

FileUploadResult(results, suggestions) ==
    [kind |-> "FileUploadResult", answer |-> <<>>, source_docs |-> <<>>,
     suggestions |-> suggestions, results |-> results]

\* a slot no request has used
IdleReq ==
    [op |-> "none", pc |-> "idle", turn |-> 0, query |-> <<>>, files |-> NoneList,
     top_docs |-> <<>>, contexts |-> <<>>, answer |-> <<>>, answer_calls |-> 0, chat_kind |-> "",
     source_docs |-> <<>>, hist |-> NoneList, hist_raised |-> FALSE, run |-> NoRun,
     response |-> NoResponse, raised_at |-> "", results |-> <<>>]

\* the handler left by an exception raised in step `at`
Raise(r, at) == [r EXCEPT !.pc = "raised", !.raised_at = at]

Free(p) == req[p].pc = "idle"

\* the handler has returned or raised: the worker takes the next request
request_ends(p) ==
    /\ req[p].pc \in {"done", "raised"}
    /\ req' = [req EXCEPT ![p] = IdleReq]
    /\ UNCHANGED <<history, index, session_files, turns, parseVars, mcqVars>>

(***************************************************************************)
(* qa.py:132-230: query_docs, one action per external call                 *)
(***************************************************************************)
\* lines 138-139: the request arrives, the retriever is built and invoked
query_docs_retrieve(p, limit) ==
    /\ Free(p)
    /\ turns < limit
    /\ \E q \in Queries, files \in FileArgs :
         \E r \in RetrievalOutcomes(index, get_retriever_for_session(files, TOP_K)) :
            LET start == [IdleReq EXCEPT !.op = "query", !.turn = turns + 1, !.query = q, !.files = files]
            IN req' = [req EXCEPT ![p] =
                          IF r.raised THEN Raise(start, "retrieval")
                          ELSE [start EXCEPT !.pc = "retrieved", !.top_docs = r.docs]]
    /\ turns' = turns + 1
    /\ UNCHANGED <<history, index, session_files, parseVars, mcqVars>>

\* line 158: the question is appended, or the insert raises
query_docs_save_user(p) ==
    /\ req[p].op = "query"
    /\ req[p].pc = "retrieved"
    /\ \E ok \in BOOLEAN :
         IF ok
         THEN /\ history' = save_chat_message(history, "user", req[p].query, <<>>, req[p].turn)
              /\ req' = [req EXCEPT ![p].pc = "saved_user"]
         ELSE /\ history' = history
              /\ req' = [req EXCEPT ![p] = Raise(@, "save_user")]
    /\ UNCHANGED <<index, session_files, turns, parseVars, mcqVars>>

\* the mutant of query_docs_return: an error of the suggestions leaves the handler
query_docs_return_propagating(r, answer, source_docs, run) ==
    IF run.raised THEN Raise([r EXCEPT !.run = run], "suggestions")
    ELSE [r EXCEPT !.run = run, !.pc = "done", !.response = QueryResponse(answer, source_docs, run.result)]

\* lines 165-175 and 218-230: the except clause around the suggestions, and the return
query_docs_return(r, answer, source_docs, run) ==
    [r EXCEPT !.run = run, !.pc = "done",
              !.response = QueryResponse(answer, source_docs, IF run.raised THEN <<>> ELSE run.result)]

\* the mutant of fallback_answer: the backend's reply although nothing was retrieved
fallback_answer_from_backend(chat) == IF chat.kind = "ok" THEN Strip(chat.content) ELSE TransportError

\* line 172
fallback_answer(chat) == FallbackAnswer

\* lines 161-175: nothing retrieved
query_docs_fallback(p) ==
    /\ req[p].op = "query"
    /\ req[p].pc = "saved_user"
    /\ req[p].top_docs = <<>>
    /\ \E r \in SuggestionRetrievals(index, Some(<<>>), req[p].files), c \in ChatOutcomes :
         req' = [req EXCEPT ![p] =
                    query_docs_return(@, fallback_answer(c), <<>>,
                        generate_suggestions_from_retriever(Some(<<>>), req[p].files, r, c))]
    /\ UNCHANGED <<history, index, session_files, turns, parseVars, mcqVars>>

\* the mutant of list_set: the filenames as retrieved
list_set_keeps_duplicates(filenames) == {filenames}

\* lines 198 and 228, list(set(filenames)): each name once, in an order the
\* hashing decides
list_set(filenames) == Perms(Range(filenames))

\* lines 178-193: the answer is asked of the backend; an error chat_get_text
\* does not catch leaves the handler
query_docs_answer(p) ==
    /\ req[p].op = "query"
    /\ req[p].pc = "saved_user"
    /\ req[p].top_docs # <<>>
    /\ \E c \in ChatOutcomes, sl \in list_set(filenames_of(req[p].top_docs)) :
         LET called == [req[p] EXCEPT !.contexts = page_contents(req[p].top_docs),
                                      !.answer_calls = @ + 1,
                                      !.chat_kind = c.kind]
         IN req' = [req EXCEPT ![p] =
                       IF chat_get_text(c).raised THEN Raise(called, "answer")
                       ELSE [called EXCEPT !.pc = "answered",
                                           !.answer = chat_get_text(c).text,
                                           !.source_docs = sl]]
    /\ UNCHANGED <<history, index, session_files, turns, parseVars, mcqVars>>

\* line 198: the answer is appended with its sources, or the insert raises
query_docs_save_assistant(p) ==
    /\ req[p].op = "query"
    /\ req[p].pc = "answered"
    /\ \E ok \in BOOLEAN :
         IF ok
         THEN /\ history' = save_chat_message(history, "assistant", req[p].answer,
                                              req[p].source_docs, req[p].turn)
              /\ req' = [req EXCEPT ![p].pc = "saved_assistant"]
         ELSE /\ history' = history
              /\ req' = [req EXCEPT ![p] = Raise(@, "save_assistant")]
    /\ UNCHANGED <<index, session_files, turns, parseVars, mcqVars>>

\* lines 201-209: the last 6 messages are read and normalised; a failed read is
\* caught at line 218 and the answer is returned without suggestions
query_docs_read_history(p) ==
    /\ req[p].op = "query"
    /\ req[p].pc = "saved_assistant"
    /\ \E ok \in BOOLEAN :
         req' = [req EXCEPT ![p] =
                    IF ok
                    THEN [@ EXCEPT !.pc = "read_history",
                                   !.hist = Some(normalize_history(get_session_messages(history, HistoryLimit)))]
                    ELSE query_docs_return([@ EXCEPT !.hist_raised = TRUE], @.answer, @.source_docs,
                                           [NoRun EXCEPT !.raised = TRUE])]
    /\ UNCHANGED <<history, index, session_files, turns, parseVars, mcqVars>>

\* lines 211-230: suggestions from the history read, and the return
query_docs_suggest(p) ==
    /\ req[p].op = "query"
    /\ req[p].pc = "read_history"
    /\ \E r \in SuggestionRetrievals(index, req[p].hist, req[p].files), c \in ChatOutcomes :
         req' = [req EXCEPT ![p] =
                    query_docs_return(@, @.answer, @.source_docs,
                        generate_suggestions_from_retriever(req[p].hist, req[p].files, r, c))]
    /\ UNCHANGED <<history, index, session_files, turns, parseVars, mcqVars>>

(***************************************************************************)
(* qa.py:232-236: generate_suggestions_api                                 *)
(***************************************************************************)
generate_suggestions_api(p) ==
    /\ Free(p)
    /\ \E files \in FileArgs :
         \E r \in SuggestionRetrievals(index, Some(<<>>), files), c \in ChatOutcomes :
            LET start == [IdleReq EXCEPT !.op = "suggestions", !.files = files]
                run == generate_suggestions_from_retriever(Some(<<>>), files, r, c)
            IN req' = [req EXCEPT ![p] =
                          IF run.raised THEN Raise([start EXCEPT !.run = run], "suggestions")
                          ELSE [start EXCEPT !.run = run, !.pc = "done",
                                             !.response = SuggestionResponse(run.result)]]
    /\ UNCHANGED <<history, index, session_files, turns, parseVars, mcqVars>>

(***************************************************************************)
(* files.py:21-62: upload_files, for a session that exists                 *)
(***************************************************************************)
UploadLists == {<<"a">>, <<"b">>, <<"a", "b">>}

\* lines 35-53: the loop over the uploaded files. accepted holds the files that
\* pass validation and extraction; the insert for file fail_at raises (0: none)
RECURSIVE upload_loop(_, _, _, _, _)
upload_loop(files, i, accepted, fail_at, acc) ==
    IF i > Len(files) THEN acc
    ELSE IF files[i] \notin accepted
         THEN upload_loop(files, i + 1, accepted, fail_at,
                          [acc EXCEPT !.results = Append(@, [filename |-> files[i], status |-> "rejected"])])
         ELSE LET listed == [acc EXCEPT !.results = Append(@, [filename |-> files[i], status |-> "accepted"]),
                                        !.to_ingest = Append(@, files[i])]
              IN IF fail_at = i THEN [listed EXCEPT !.raised = TRUE]
                 ELSE upload_loop(files, i + 1, accepted, fail_at,
                          [listed EXCEPT
                              !.rows = save_chat_message(@, "system", <<"U", files[i]>>, <<>>, acc.turn),
                              !.session_files = @ \cup {files[i]}])

\* lines 57-62: the except clause around ingestion and suggestions, and the return
upload_files_return(r, results, run) ==
    [r EXCEPT !.run = run, !.pc = "done", !.results = results,
              !.response = FileUploadResult(results, IF run.raised THEN <<>> ELSE run.result)]

upload_files(p) ==
    /\ Free(p)
    /\ \E files \in UploadLists :
         /\ Range(files) \cap session_files = {}
         /\ \E accepted \in SUBSET Range(files), fail_at \in 0..Len(files), ingested \in BOOLEAN :
              LET start == [IdleReq EXCEPT !.op = "upload"]
                  loop == upload_loop(files, 1, accepted, fail_at,
                              [results |-> <<>>, to_ingest |-> <<>>, rows |-> history,
                               session_files |-> session_files, raised |-> FALSE, turn |-> 0])
                  index2 == IF ingested THEN index \cup UNION {ChunksOf(f) : f \in Range(loop.to_ingest)}
                            ELSE index
              IN /\ history' = loop.rows
                 /\ session_files' = loop.session_files
                 /\ IF loop.raised
                    THEN /\ index' = index
                         /\ req' = [req EXCEPT ![p] = Raise([start EXCEPT !.results = loop.results], "save_system")]
                    ELSE IF loop.to_ingest = <<>> \/ ~ingested
                    THEN /\ index' = index
                         /\ req' = [req EXCEPT ![p] = [start EXCEPT !.pc = "done", !.results = loop.results,
                                                          !.response = FileUploadResult(loop.results, <<>>)]]
                    ELSE /\ index' = index2
                         /\ \E r \in SuggestionRetrievals(index2, NoneList, NoneList), c \in ChatOutcomes :
                              req' = [req EXCEPT ![p] =
                                         upload_files_return(start, loop.results,
                                             generate_suggestions_from_retriever(NoneList, NoneList, r, c))]
    /\ UNCHANGED <<turns, parseVars, mcqVars>>

(***************************************************************************)
(* qa.py:315-328: generate_mcq, cleaning of the backend response           *)
(***************************************************************************)
\* the code fence of three backticks ("backtick" stands for U+0060)
Fence == <<"backtick", "backtick", "backtick">>

\* s.startswith(pre), s.endswith(suf)
StartsWith(s, pre) == Len(s) >= Len(pre) /\ SubSeq(s, 1, Len(pre)) = pre

EndsWith(s, suf) == Len(s) >= Len(suf) /\ SubSeq(s, Len(s) - Len(suf) + 1, Len(s)) = suf

\* the mutant of drop_first_line: the three fence characters are removed
drop_fence_characters(s) == SubSeq(s, Len(Fence) + 1, Len(s))

\* lines 318-319, the lines of resp.split after the first, joined again: what
\* follows the first line break
drop_first_line(s) ==
    LET breaks == {i \in 1..Len(s) : s[i] = "\n"}
    IN IF breaks = {} THEN <<>> ELSE SubSeq(s, MinOf(breaks) + 1, Len(s))

\* line 321, resp.rsplit(fence, 1)[0] of a text that ends with the fence
drop_last_fence(s) == SubSeq(s, 1, Len(s) - Len(Fence))

\* lines 316-322
strip_code_fences(resp) ==
    LET stripped == Strip(resp)
        opened == IF StartsWith(stripped, Fence) THEN drop_first_line(stripped) ELSE stripped
        closed == IF EndsWith(opened, Fence) THEN drop_last_fence(opened) ELSE opened
    IN Strip(closed)

\* s.find(ch): the 0-based index of the first ch, -1 when there is none
find(s, ch) ==
    LET at == {i \in 1..Len(s) : s[i] = ch}
    IN IF at = {} THEN -1 ELSE MinOf(at) - 1

\* the mutant of rfind: the first occurrence
rfind_first_occurrence(s, ch) == find(s, ch)

\* s.rfind(ch): the 0-based index of the last ch, -1 when there is none
rfind(s, ch) ==
    LET at == {i \in 1..Len(s) : s[i] = ch}
    IN IF at = {} THEN -1 ELSE MaxOf(at) - 1

\* lines 325-328: the span from the first '[' to the last ']', when there is one
slice_json_array(resp) ==
    LET json_start == find(resp, "[")
        json_end == rfind(resp, "]") + 1
    IN IF json_start # -1 /\ json_end > json_start
       THEN SubSeq(resp, json_start + 1, json_end)
       ELSE resp

\* lines 316-328: the text handed to json.loads
clean_mcq_response(resp) == slice_json_array(strip_code_fences(resp))

(***************************************************************************)
(* qa.py:334: json.loads, on texts whose characters stand for JSON tokens: *)
(* "[", "]", ",", whitespace, "n" for a number, and for an object          *)
(* "o" (all three fields), "c" (no choices), "q" (no question),            *)
(* "r" (no correct_answer), "e" (no field).  Any other character is prose. *)
(***************************************************************************)
JsonWhitespace == {" ", "\n", "\t"}

ItemFields == {"question", "choices", "correct_answer"}

ObjectTokens == {"o", "c", "q", "r", "e"}

FieldsOf(tok) ==
    IF tok = "o" THEN ItemFields
    ELSE IF tok = "c" THEN ItemFields \ {"choices"}
    ELSE IF tok = "q" THEN ItemFields \ {"question"}
    ELSE IF tok = "r" THEN ItemFields \ {"correct_answer"}
    ELSE {}

JsonObject(tok) == [type |-> "object", has |-> FieldsOf(tok), items |-> <<>>]

JsonNumber == [type |-> "number", has |-> {}, items |-> <<>>]

JsonArray(items) == [type |-> "array", has |-> {}, items |-> items]

ParseFail == [ok |-> FALSE, value |-> JsonNumber, next |-> 0]

RECURSIVE skip_ws(_, _)
skip_ws(s, i) == IF i <= Len(s) /\ s[i] \in JsonWhitespace THEN skip_ws(s, i + 1) ELSE i

\* one JSON value starting at position i; next is the position after it
RECURSIVE parse_value(_, _)
RECURSIVE parse_items(_, _, _)
parse_value(s, i) ==
    LET j == skip_ws(s, i)
    IN IF j > Len(s) THEN ParseFail
       ELSE IF s[j] \in ObjectTokens THEN [ok |-> TRUE, value |-> JsonObject(s[j]), next |-> j + 1]
       ELSE IF s[j] = "n" THEN [ok |-> TRUE, value |-> JsonNumber, next |-> j + 1]
       ELSE IF s[j] = "["
            THEN LET k == skip_ws(s, j + 1)
                 IN IF k <= Len(s) /\ s[k] = "]"
                    THEN [ok |-> TRUE, value |-> JsonArray(<<>>), next |-> k + 1]
                    ELSE parse_items(s, k, <<>>)
       ELSE ParseFail

\* the items of an array after its "[", up to its "]"
parse_items(s, i, acc) ==
    LET v == parse_value(s, i)
    IN IF ~v.ok THEN ParseFail
       ELSE LET j == skip_ws(s, v.next)
            IN IF j > Len(s) THEN ParseFail
               ELSE IF s[j] = "," THEN parse_items(s, j + 1, Append(acc, v.value))
               ELSE IF s[j] = "]"
                    THEN [ok |-> TRUE, value |-> JsonArray(Append(acc, v.value)), next |-> j + 1]
               ELSE ParseFail

\* json.loads(s): one value and nothing but whitespace after it, or JSONDecodeError
json_loads(s) ==
    LET v == parse_value(s, 1)
    IN IF v.ok /\ skip_ws(s, v.next) > Len(s)
       THEN [ok |-> TRUE, value |-> v.value]
       ELSE [ok |-> FALSE, value |-> JsonNumber]

(***************************************************************************)
(* qa.py:336-370: generate_mcq, from the parsed value to the response      *)
(***************************************************************************)
QuestionText == <<"Q">>

\* the choices object of an item, as its (label, text) pairs
ChoiceMap == {<<"A", "x">>, <<"B", "y">>}

CorrectLabel == <<"A">>

\* s[:n] of Python for any integer n: a negative n counts from the end
slice_to(s, n) ==
    IF n >= 0 THEN Take(s, n)
    ELSE IF Len(s) + n > 0 THEN SubSeq(s, 1, Len(s) + n) ELSE <<>>

\* line 243: body.num_questions or 5
effective_count(num_questions) == IF num_questions = 0 THEN DefaultCount ELSE num_questions

NoItem == [question |-> <<>>, choices |-> {}, correct_answer |-> <<>>]

\* the mutant of mcq_item: the fields are read with item[...]
mcq_item_strict(item) ==
    IF item.type = "object" /\ item.has = ItemFields
    THEN [ok |-> TRUE, item |-> [question |-> QuestionText, choices |-> ChoiceMap, correct_answer |-> CorrectLabel]]
    ELSE [ok |-> FALSE, item |-> NoItem]

\* lines 345-351: item.get(...) with defaults; an item that is no object has
\* no get (AttributeError)
mcq_item(item) ==
    IF item.type # "object" THEN [ok |-> FALSE, item |-> NoItem]
    ELSE [ok |-> TRUE,
          item |-> [question |-> IF "question" \in item.has THEN QuestionText ELSE <<>>,
                    choices |-> IF "choices" \in item.has THEN ChoiceMap ELSE {},
                    correct_answer |-> IF "correct_answer" \in item.has THEN CorrectLabel ELSE <<>>]]

\* lines 269, 366, 370: HTTPException with a status code
http_error(status) == [returned |-> FALSE, status |-> status, mcqs |-> <<>>]

\* lines 356-360: MCQListResponse
MCQListResponse(mcqs) == [returned |-> TRUE, status |-> 200, mcqs |-> mcqs]

\* the mutant of parse_error_result: an empty quiz instead of the error
parse_error_degraded == MCQListResponse(<<>>)

\* lines 362-366: JSONDecodeError becomes HTTP 500
parse_error_result == http_error(500)

\* lines 333-370: the parsed value becomes the response or an error
mcq_result(count, cleaned) ==
    LET mcqs_json == json_loads(cleaned)
    IN IF ~mcqs_json.ok THEN parse_error_result
       ELSE IF mcqs_json.value.type # "array" THEN http_error(500)
       ELSE LET taken == slice_to(mcqs_json.value.items, count)
                built == [i \in 1..Len(taken) |-> mcq_item(taken[i])]
            IN IF \E i \in 1..Len(built) : ~built[i].ok THEN http_error(500)
               ELSE MCQListResponse([i \in 1..Len(built) |-> built[i].item])

(***************************************************************************)
(* qa.py:271-291: generate_mcq, the excerpts and their selection           *)
(***************************************************************************)
\* lines 272-278: by_source as the dict's entries in insertion order
RECURSIVE group_excerpts(_, _, _)
group_excerpts(docs, i, entries) ==
    IF i > Len(docs) THEN entries
    ELSE LET excerpt == Take(docs[i].page_content, ExcerptChars)
             at == {e \in 1..Len(entries) : entries[e].source = docs[i].source}
         IN IF at = {}
            THEN group_excerpts(docs, i + 1, Append(entries, [source |-> docs[i].source, excerpts |-> <<excerpt>>]))
            ELSE group_excerpts(docs, i + 1,
                     [entries EXCEPT ![MinOf(at)] = [@ EXCEPT !.excerpts = Append(@, excerpt)]])

\* the position of a key among the entries, 0 when it is not a key
EntryOf(entries, source) ==
    LET at == {e \in 1..Len(entries) : entries[e].source = source}
    IN IF at = {} THEN 0 ELSE MinOf(at)

\* del by_source[source]
delete_entry(entries, source) == SelectSeq(entries, LAMBDA e : e.source # source)

\* the mutant of by_source_lookup: a plain dict, KeyError for a deleted key
plain_dict_lookup(entries, source) ==
    [raised |-> EntryOf(entries, source) = 0, entries |-> entries]

\* line 286, by_source[source] of a defaultdict(list): a missing key is
\* inserted with an empty list
by_source_lookup(entries, source) ==
    [raised |-> FALSE,
     entries |-> IF EntryOf(entries, source) = 0
                 THEN Append(entries, [source |-> source, excerpts |-> <<>>])
                 ELSE entries]

\* lines 282 and 285, next(cycle(by_source.keys())): the keys iterator of the
\* dict is consumed and its keys saved; once it is exhausted the saved keys are
\* replayed.  The keys iterator raises when the dict has changed size.
next_source(m) ==
    IF m.replay = 0
    THEN IF Len(m.by_source) # m.iter_size THEN [raised |-> TRUE, source |-> "", state |-> m]
         ELSE IF m.iter_pos < Len(m.by_source)
         THEN [raised |-> FALSE, source |-> m.by_source[m.iter_pos + 1].source,
               state |-> [m EXCEPT !.iter_pos = @ + 1,
                                   !.saved = Append(@, m.by_source[m.iter_pos + 1].source)]]
         ELSE IF m.saved = <<>> THEN [raised |-> TRUE, source |-> "", state |-> m]
         ELSE [raised |-> FALSE, source |-> m.saved[1],
               state |-> [m EXCEPT !.replay = IF Len(m.saved) = 1 THEN 1 ELSE 2]]
    ELSE [raised |-> FALSE, source |-> m.saved[m.replay],
          state |-> [m EXCEPT !.replay = IF @ = Len(m.saved) THEN 1 ELSE @ + 1]]

(***************************************************************************)
(* qa.py:239-370: generate_mcq, one request                                *)
(***************************************************************************)
\* what body.num_questions can hold (an int without validation, schemas.py:29)
MCQCounts == -1..MaxQuizCount

\* the bodies the backend can answer a quiz prompt with
QuizContents ==
    {<<"[", "o", ",", "c", ",", "q", "]">>,
     <<"p", "\n", "backtick", "backtick", "backtick", "\n", "[", "o", ",", "r", "]", "\n", "backtick", "backtick", "backtick", "\n", "p">>,
     <<"backtick", "backtick", "backtick", "[", "o", "]", "backtick", "backtick", "backtick">>,
     <<"[", "e", ",", "n", "]">>,
     <<"o">>,
     <<"[", "o", ",">>,
     <<"[", "]">>}

MCQChatOutcomes ==
    {[kind |-> "ok", content |-> c] : c \in QuizContents}
        \cup {o \in ChatOutcomes : o.kind # "ok"}

IdleMCQ ==
    [pc |-> "idle", num_questions |-> 0, count |-> 0, files |-> NoneList, docs |-> <<>>,
     by_source |-> <<>>, iter_size |-> 0, iter_pos |-> 0, saved |-> <<>>, replay |-> 0,
     max_excerpts |-> 0, selected_content |-> <<>>, iterations |-> 0,
     combined_content |-> <<>>, backend_called |-> FALSE, chat_kind |-> "",
     resp |-> <<>>, cleaned |-> <<>>, raised_at |-> "", response |-> http_error(0)]

\* the mutant of no_docs: the handler goes on without passages
no_docs_ignored(docs) == FALSE

\* line 267
no_docs(docs) == docs = <<>>

\* an exception leaves the handler
RaiseMCQ(m, at, status) == [m EXCEPT !.pc = "raised", !.raised_at = at, !.response = http_error(status)]

\* lines 272-283: the excerpts are grouped, the cycle and the limit are set
begin_selection(start, docs) ==
    LET by_source == group_excerpts(docs, 1, <<>>)
    IN [start EXCEPT !.pc = "selecting", !.docs = docs,
                     !.by_source = by_source,
                     !.iter_size = Len(by_source),
                     !.max_excerpts = start.count * 2]

\* lines 240-283: the count, the retrieval, the 404 and the grouping
generate_mcq_retrieve ==
    /\ mcq.pc = "idle"
    /\ \E num_questions \in MCQCounts, files \in FileArgs :
         \E r \in RetrievalOutcomes(index, get_retriever_for_session(files, TOP_K)) :
            LET count == effective_count(num_questions)
                start == [IdleMCQ EXCEPT !.num_questions = num_questions, !.count = count,
                                         !.files = files]
            IN mcq' = IF r.raised THEN RaiseMCQ(start, "retrieval", 500)
                      ELSE IF no_docs(r.docs) THEN RaiseMCQ(start, "no_docs", 404)
                      ELSE begin_selection(start, r.docs)
    /\ UNCHANGED <<mainVars, parseVars>>

\* the mutant of combine: the joined excerpts without the cut
combine_untruncated(selected_content) == JoinWith(selected_content, <<"\n", "\n">>)

\* lines 293-299: the excerpts joined and cut to MAX_CONTEXT
combine(selected_content) == Take(JoinWith(selected_content, <<"\n", "\n">>), MAX_CONTEXT)

\* the loop is left: lines 293-299
selection_ends(m) == [m EXCEPT !.pc = "selected", !.combined_content = combine(m.selected_content)]

\* lines 284-291: the test of the while loop and one pass through its body
generate_mcq_select ==
    /\ mcq.pc = "selecting"
    /\ mcq' =
         IF ~(Len(mcq.selected_content) < mcq.max_excerpts /\ mcq.by_source # <<>>)
         THEN selection_ends(mcq)
         ELSE LET nxt == next_source(mcq)
                  looked == by_source_lookup(nxt.state.by_source, nxt.source)
                  at == EntryOf(looked.entries, nxt.source)
                  m == [nxt.state EXCEPT !.iterations = @ + 1, !.by_source = looked.entries]
              IN IF nxt.raised THEN RaiseMCQ(mcq, "cycle", 500)
                 ELSE IF looked.raised THEN RaiseMCQ(m, "lookup", 500)
                 ELSE IF looked.entries[at].excerpts # <<>>
                 THEN [m EXCEPT !.selected_content = Append(@, Head(looked.entries[at].excerpts)),
                                !.by_source[at].excerpts = Tail(@)]
                 ELSE LET deleted == [m EXCEPT !.by_source = delete_entry(@, nxt.source)]
                      IN IF deleted.by_source = <<>> THEN selection_ends(deleted) ELSE deleted
    /\ UNCHANGED <<mainVars, parseVars>>

\* lines 305-309: the prompt is sent; an error chat_get_text does not catch
\* leaves the handler
generate_mcq_chat ==
    /\ mcq.pc = "selected"
    /\ \E c \in MCQChatOutcomes :
         LET called == [mcq EXCEPT !.backend_called = TRUE, !.chat_kind = c.kind]
         IN mcq' = IF chat_get_text(c).raised THEN RaiseMCQ(called, "chat", 500)
                   ELSE [called EXCEPT !.pc = "responded", !.resp = chat_get_text(c).text]
    /\ UNCHANGED <<mainVars, parseVars>>

\* lines 316-370: the response is cleaned and parsed, and the items returned
generate_mcq_parse ==
    /\ mcq.pc = "responded"
    /\ LET cleaned == clean_mcq_response(mcq.resp)
           result == mcq_result(mcq.count, cleaned)
       IN mcq' = [mcq EXCEPT !.pc = IF result.returned THEN "done" ELSE "raised",
                             !.raised_at = IF result.returned THEN "" ELSE "parse",
                             !.cleaned = cleaned,
                             !.response = result]
    /\ UNCHANGED <<mainVars, parseVars>>

\* the response is delivered and the worker takes the next request
mcq_request_ends ==
    /\ mcq.pc \in {"done", "raised"}
    /\ mcq' = IdleMCQ
    /\ UNCHANGED <<mainVars, parseVars>>

(***************************************************************************)
(* The session served by one worker: requests one after another            *)
(***************************************************************************)
Init ==
    /\ history = <<>>
    /\ index = {}
    /\ session_files = {}
    /\ req = [p \in Procs |-> IdleReq]
    /\ turns = 0
    /\ p_resp = <<>>
    /\ p_out = <<>>
    /\ p_pc = "unused"
    /\ bal = NoBalance
    /\ mcq = IdleMCQ

Next ==
    \/ query_docs_retrieve(1, MaxTurns)
    \/ query_docs_save_user(1)
    \/ query_docs_fallback(1)
    \/ query_docs_answer(1)
    \/ query_docs_save_assistant(1)
    \/ query_docs_read_history(1)
    \/ query_docs_suggest(1)
    \/ generate_suggestions_api(1)
    \/ upload_files(1)
    \/ request_ends(1)

Spec == Init /\ [][Next]_vars

\* the same worker serving a conversation of several questions
NextHistory ==
    \/ query_docs_retrieve(1, MaxHistoryTurns)
    \/ query_docs_save_user(1)
    \/ query_docs_fallback(1)
    \/ query_docs_answer(1)
    \/ query_docs_save_assistant(1)
    \/ query_docs_read_history(1)
    \/ query_docs_suggest(1)
    \/ generate_suggestions_api(1)
    \/ upload_files(1)
    \/ request_ends(1)

SpecHistory == Init /\ [][NextHistory]_vars

(***************************************************************************)
(* generate_suggestions_from_retriever called with any history             *)
(***************************************************************************)
\* length of a history handed to the generator
MaxHistLen == 3

HistoryMessages ==
    {[role |-> "user", content |-> <<"q", "1">>, turn |-> 0],
     [role |-> "user", content |-> <<"q", "2">>, turn |-> 0],
     [role |-> "assistant", content |-> <<"o", "k">>, turn |-> 0],
     [role |-> "system", content |-> <<"U", "a">>, turn |-> 0]}

HistoryArgs == {NoneList} \cup {Some(h) : h \in UNION {[1..n -> HistoryMessages] : n \in 0..MaxHistLen}}

\* qa.py:52-56: a caller passes a history and a file list
call_generate_suggestions(p) ==
    /\ Free(p)
    /\ \E hist \in HistoryArgs, files \in FileArgs :
         \E r \in SuggestionRetrievals(index, hist, files), c \in ChatOutcomes :
            LET start == [IdleReq EXCEPT !.op = "generate", !.files = files, !.hist = hist]
                run == generate_suggestions_from_retriever(hist, files, r, c)
            IN req' = [req EXCEPT ![p] =
                          IF run.raised THEN Raise([start EXCEPT !.run = run], "suggestions")
                          ELSE [start EXCEPT !.run = run, !.pc = "done",
                                             !.response = SuggestionResponse(run.result)]]
    /\ UNCHANGED <<history, index, session_files, turns, parseVars, mcqVars>>

NextSuggest ==
    \/ upload_files(1)
    \/ call_generate_suggestions(1)
    \/ request_ends(1)

SpecSuggest == Init /\ [][NextSuggest]_vars

(***************************************************************************)
(* Parser development: every short response, and many-line responses       *)
(***************************************************************************)
RespAlphabet == {"1", ")", "(", " ", "a", "\n"}

LineAlphabet == {"1", "a"}

ShortLines == UNION {[1..n -> LineAlphabet] : n \in 0..2}

ShortResps == UNION {[1..n -> RespAlphabet] : n \in 0..MaxRespLen}

ManyLineResps ==
    UNION {{JoinWith(ls, <<"\n">>) : ls \in [1..n -> ShortLines]} : n \in 1..MaxLines}

ParseInputs == ShortResps \cup ManyLineResps

ParseInit ==
    /\ p_resp \in ParseInputs
    /\ p_out = <<>>
    /\ p_pc = "input"
    /\ bal = NoBalance
    /\ history = <<>>
    /\ index = {}
    /\ session_files = {}
    /\ req = <<>>
    /\ turns = 0
    /\ mcq = IdleMCQ

ParseStep ==
    /\ p_pc = "input"
    /\ p_out' = parse_suggestions(p_resp)
    /\ p_pc' = "parsed"
    /\ UNCHANGED <<p_resp, bal, mainVars, mcqVars>>

ParseNext == ParseStep

SpecParse == ParseInit /\ [][ParseNext]_vars

(***************************************************************************)
(* generate_mcq on a session that holds uploaded files                     *)
(***************************************************************************)
NextMCQ ==
    \/ upload_files(1)
    \/ request_ends(1)
    \/ generate_mcq_retrieve
    \/ generate_mcq_select
    \/ generate_mcq_chat
    \/ generate_mcq_parse
    \/ mcq_request_ends

SpecMCQ == Init /\ [][NextMCQ]_vars

(***************************************************************************)
(* Quiz response development: generate_mcq from the backend's response on, *)
(* for many responses                                                      *)
(***************************************************************************)
\* length of an exhaustively enumerated array text
MaxQuizBody == 3
\* number of items of an enumerated well-formed array
MaxQuizItems == 3

BodyAlphabet == {"[", "]", ",", "o", "c", "n"}

ItemTokens == ObjectTokens \cup {"n"}

\* every short text of brackets, commas and values
ShortBodies == UNION {[1..n -> BodyAlphabet] : n \in 0..MaxQuizBody}

\* the well-formed arrays of 1 to MaxQuizItems values
ArrayBodies ==
    {<<"[">> \o JoinWith([i \in 1..Len(items) |-> <<items[i]>>], <<",">>) \o <<"]">> :
        items \in UNION {[1..n -> ItemTokens] : n \in 1..MaxQuizItems}}

\* what the backend puts before and after the array
QuizPrefixes == {<<>>, <<"p", " ">>, Fence \o <<"j", "\n">>, Fence}

QuizSuffixes == {<<>>, <<" ", "p">>, <<"\n">> \o Fence, <<"\n">> \o Fence \o <<"\n", "p">>}

QuizResps ==
    {pre \o body \o post : pre \in QuizPrefixes, body \in ShortBodies \cup ArrayBodies, post \in QuizSuffixes}

\* a request that has its response from the backend (line 309)
QuizInit ==
    /\ \E resp \in QuizResps, num_questions \in MCQCounts :
         mcq = [IdleMCQ EXCEPT !.pc = "responded", !.num_questions = num_questions,
                               !.count = effective_count(num_questions),
                               !.backend_called = TRUE, !.chat_kind = "ok", !.resp = Strip(resp)]
    /\ history = <<>>
    /\ index = {}
    /\ session_files = {}
    /\ req = <<>>
    /\ turns = 0
    /\ p_resp = <<>>
    /\ p_out = <<>>
    /\ p_pc = "unused"
    /\ bal = NoBalance

QuizNext == generate_mcq_parse

SpecQuiz == QuizInit /\ [][QuizNext]_vars

(***************************************************************************)
(* Fence development: generate_mcq from the backend's response on, for     *)
(* arrays wrapped in a code-fence block                                    *)
(***************************************************************************)
\* number of items of a wrapped array
MaxFenceItems == 2

FenceItemLists == UNION {[1..n -> ItemTokens] : n \in 0..MaxFenceItems}

\* the arrays on one line, and the same arrays with a line for each bracket
\* and each item
FenceArrays ==
    {<<"[">> \o JoinWith([i \in 1..Len(items) |-> <<items[i]>>], <<",">>) \o <<"]">> :
        items \in FenceItemLists}
        \cup {<<"[", "\n">> \o JoinWith([i \in 1..Len(items) |-> <<items[i]>>], <<",", "\n">>) \o <<"\n", "]">> :
                 items \in FenceItemLists \ {<<>>}}

\* the opening fence, with a language tag or without: on a line of its own,
\* or on the line where the array starts
OpeningFences ==
    {[text |-> Fence \o <<"\n">>, own_line |-> TRUE],
     [text |-> Fence \o <<"j", "\n">>, own_line |-> TRUE],
     [text |-> Fence, own_line |-> FALSE],
     [text |-> Fence \o <<"j", " ">>, own_line |-> FALSE]}

\* the closing fence: absent, on a line of its own, or on the line where the
\* array ends
ClosingFences == {<<>>, <<"\n">> \o Fence, Fence, <<"\n">> \o Fence \o <<"\n">>}

FencedResps == {op.text \o X \o cl : op \in OpeningFences, X \in FenceArrays, cl \in ClosingFences}

\* a request that has its response from the backend (line 309)
FenceInit ==
    /\ \E resp \in FencedResps, num_questions \in MCQCounts :
         mcq = [IdleMCQ EXCEPT !.pc = "responded", !.num_questions = num_questions,
                               !.count = effective_count(num_questions),
                               !.backend_called = TRUE, !.chat_kind = "ok", !.resp = Strip(resp)]
    /\ history = <<>>
    /\ index = {}
    /\ session_files = {}
    /\ req = <<>>
    /\ turns = 0
    /\ p_resp = <<>>
    /\ p_out = <<>>
    /\ p_pc = "unused"
    /\ bal = NoBalance

FenceNext == generate_mcq_parse

SpecFence == FenceInit /\ [][FenceNext]_vars

(***************************************************************************)
(* Balancer development: the contexts of initial suggestions, qa.py:75-102,*)
(* for ranked passage lists of up to four sources                          *)
(***************************************************************************)
\* passages of one source in the longest enumerated lists: one above the cap
MaxGroup == 11

BalanceSources == <<"A", "B", "C", "D">>

\* the k-th passage of a source
Passage(src, k) == [page_content |-> <<src, k>>, source |-> src]

\* how many passages a source has in a list
GroupSizes == {0, 1, 3, MaxGroup}

\* the sources one after the other, each with its passages in order
Blocked(sizes) ==
    Flatten([s \in 1..Len(BalanceSources) |-> [k \in 1..sizes[s] |-> Passage(BalanceSources[s], k)]])

\* the passages rank by rank, the sources from the last to the first
RECURSIVE Interleaved(_, _)
Interleaved(sizes, k) ==
    IF \A s \in 1..Len(sizes) : sizes[s] < k THEN <<>>
    ELSE LET at_rank == [s \in 1..Len(sizes) |->
                            LET src == Len(sizes) + 1 - s
                            IN IF sizes[src] >= k THEN <<Passage(BalanceSources[src], k)>> ELSE <<>>]
         IN Flatten(at_rank) \o Interleaved(sizes, k + 1)

\* the list of the specification's example: A with 15 passages, then B with 3
ExampleDocs == [k \in 1..15 |-> Passage("A", k)] \o [k \in 1..3 |-> Passage("B", k)]

BalanceInputs ==
    {Blocked(sizes) : sizes \in [1..Len(BalanceSources) -> GroupSizes]}
        \cup {Interleaved(sizes, 1) : sizes \in [1..Len(BalanceSources) -> GroupSizes]}
        \cup {ExampleDocs}

BalanceInit ==
    /\ \E docs \in BalanceInputs : bal = [pc |-> "input", docs |-> docs, out |-> <<>>]
    /\ p_resp = <<>>
    /\ p_out = <<>>
    /\ p_pc = "unused"
    /\ history = <<>>
    /\ index = {}
    /\ session_files = {}
    /\ req = <<>>
    /\ turns = 0
    /\ mcq = IdleMCQ

\* lines 75-104 for a generator without history
BalanceStep ==
    /\ bal.pc = "input"
    /\ bal' = [bal EXCEPT !.pc = "balanced", !.out = suggestion_contexts(NoneList, bal.docs)]
    /\ UNCHANGED <<p_resp, p_out, p_pc, mainVars, mcqVars>>

BalanceNext == BalanceStep

SpecBalance == BalanceInit /\ [][BalanceNext]_vars

(***************************************************************************)
(* Concurrent query_docs requests on one session: every step of a handler  *)
(* that calls a collaborator is one step, and the steps of the requests    *)
(* interleave                                                              *)
(***************************************************************************)
\* query_docs requests started on the session
MaxConcurrent == 2

\* the session after file a was uploaded and ingested
ConcurrentInit ==
    /\ history = save_chat_message(<<>>, "system", <<"U", "a">>, <<>>, 0)
    /\ index = ChunksOf("a")
    /\ session_files = {"a"}
    /\ req = [p \in Procs |-> IdleReq]
    /\ turns = 0
    /\ p_resp = <<>>
    /\ p_out = <<>>
    /\ p_pc = "unused"
    /\ bal = NoBalance
    /\ mcq = IdleMCQ

\* the requests that are enumerated: request p asks question p, of the whole
\* session or of a file that is not there; the collaborators fail or answer
\* wherever that decides which rows are appended, and the passages come in one
\* order and the suggestion backend answers
ConcurrentScope(p) ==
    LET r == req'[p]
    IN /\ r.query = <<"q", IF p = 1 THEN "1" ELSE "2">>
       /\ r.files \in {NoneList, Some(<<"b">>)}
       /\ r.top_docs # <<>> => r.top_docs[1].page_content = <<"a", "1">>
       /\ r.chat_kind \in {"", "ok", "type_error"}
       /\ r.run.chat_kind \in {"", "ok"}

NextConcurrent ==
    \E p \in Procs :
        \/ query_docs_retrieve(p, MaxConcurrent) /\ ConcurrentScope(p)
        \/ query_docs_save_user(p) /\ ConcurrentScope(p)
        \/ query_docs_fallback(p) /\ ConcurrentScope(p)
        \/ query_docs_answer(p) /\ ConcurrentScope(p)
        \/ query_docs_save_assistant(p) /\ ConcurrentScope(p)
        \/ query_docs_read_history(p) /\ ConcurrentScope(p)
        \/ query_docs_suggest(p) /\ ConcurrentScope(p)
        \/ request_ends(p)

SpecConcurrent == ConcurrentInit /\ [][NextConcurrent]_vars

(***************************************************************************)
(* Prompt development: build_suggestion_prompt called with any history of  *)
(* user, assistant and system messages                                     *)
(***************************************************************************)
\* length of a history handed to the prompt builder
MaxPairHistLen == 5

PairRoles == {"user", "assistant", "system"}

\* the histories of every sequence of roles; a message carries its place in
\* the list as its text and as its turn
HistoryOfRoles(roles) ==
    [i \in 1..Len(roles) |-> [role |-> roles[i], content |-> <<roles[i], i>>, turn |-> i]]

PairHistories ==
    {HistoryOfRoles(roles) : roles \in UNION {[1..n -> PairRoles] : n \in 0..MaxPairHistLen}}

\* groq_llm.py:92-96: a caller passes a context and a history
call_build_suggestion_prompt(p) ==
    /\ Free(p)
    /\ \E hist \in {NoneList} \cup {Some(h) : h \in PairHistories} :
         req' = [req EXCEPT ![p] =
                    [IdleReq EXCEPT !.op = "prompt", !.pc = "done", !.hist = hist,
                                    !.run = [NoRun EXCEPT !.history = hist,
                                                          !.prompt = build_suggestion_prompt(<<"c">>, hist)]]]
    /\ UNCHANGED <<history, index, session_files, turns, parseVars, mcqVars>>

NextPairs ==
    \/ call_build_suggestion_prompt(1)
    \/ request_ends(1)

SpecPairs == Init /\ [][NextPairs]_vars

(***************************************************************************)
(* Contexts development: the contexts of an answer and of suggestions, for *)
(* ranked passage lists that the balancer reorders or cuts                 *)
(***************************************************************************)
\* number of passages of the larger file in a retrieval
MaxSurveyGroup == 11

PassageLabels == <<"1", "2", "3", "4", "5", "6", "7", "8", "9", "10", "11", "12", "13", "14", "15">>

SurveyPassage(src, k) == [page_content |-> <<src, PassageLabels[k]>>, source |-> src]

\* the passages of file a, then those of file b; and the two files in turn
SurveyInputs ==
    {[k \in 1..na |-> SurveyPassage("a", k)] \o [k \in 1..nb |-> SurveyPassage("b", k)] :
        na \in {1, 2, MaxSurveyGroup}, nb \in {0, 1, 3}}
        \cup {<<SurveyPassage("a", 1), SurveyPassage("b", 1), SurveyPassage("a", 2)>>}

\* the histories a caller of the generator passes
SurveyHistories ==
    {NoneList, Some(<<>>),
     Some(<<[role |-> "user", content |-> <<"q", "1">>, turn |-> 0]>>),
     Some(<<[role |-> "user", content |-> <<"q", "1">>, turn |-> 0],
            [role |-> "assistant", content |-> <<"o", "k">>, turn |-> 0]>>),
     Some(<<[role |-> "assistant", content |-> <<"o", "k">>, turn |-> 0],
            [role |-> "user", content |-> <<"q", "1">>, turn |-> 0]>>)}

\* worker 1 serves an answer request whose retrieval has returned these
\* passages and whose question is appended (qa.py:158)
SurveyInit ==
    /\ \E docs \in SurveyInputs :
         /\ req = [p \in Procs |->
                      IF p = 1
                      THEN [IdleReq EXCEPT !.op = "query", !.pc = "saved_user", !.turn = 1,
                                           !.query = <<"q", "1">>, !.top_docs = docs]
                      ELSE IdleReq]
         /\ index = Range(docs)
         /\ session_files = {docs[i].source : i \in 1..Len(docs)}
    /\ history = save_chat_message(<<>>, "user", <<"q", "1">>, <<>>, 1)
    /\ turns = 1
    /\ p_resp = <<>>
    /\ p_out = <<>>
    /\ p_pc = "unused"
    /\ bal = NoBalance
    /\ mcq = IdleMCQ

\* qa.py:52-70: a caller passes a history, and the retrieval returns these
\* passages
call_generate_suggestions_on(p) ==
    /\ Free(p)
    /\ \E hist \in SurveyHistories, docs \in SurveyInputs, c \in ChatOutcomes :
         LET start == [IdleReq EXCEPT !.op = "generate", !.hist = hist]
             run == generate_suggestions_from_retriever(hist, NoneList, [raised |-> FALSE, docs |-> docs], c)
         IN /\ Len(docs) <= retrieval_k(hist)
            /\ req' = [req EXCEPT ![p] =
                          IF run.raised THEN Raise([start EXCEPT !.run = run], "suggestions")
                          ELSE [start EXCEPT !.run = run, !.pc = "done",
                                             !.response = SuggestionResponse(run.result)]]
    /\ UNCHANGED <<history, index, session_files, turns, parseVars, mcqVars>>

NextSurvey ==
    \/ query_docs_answer(1)
    \/ call_generate_suggestions_on(2)
    \/ request_ends(2)

SpecSurvey == SurveyInit /\ [][NextSurvey]_vars

(***************************************************************************)
(* The three operations on one session, one request at a time: answers,    *)
(* the suggestion endpoint and quizzes                                     *)
(***************************************************************************)
\* number of answer requests
MaxAccountingTurns == 2

\* the requests that are enumerated: asked of the whole session or of a file
\* that is not there, the passages in one order; the suggestion backend
\* answers when an answer request calls it
AccountingScope ==
    LET r == req'[1]
    IN /\ r.query \in {<<>>, <<"q", "1">>}
       /\ r.files \in {NoneList, Some(<<"b">>)}
       /\ r.top_docs # <<>> => r.top_docs[1].page_content = <<"a", "1">>
       /\ r.run.top_docs # <<>> => r.run.top_docs[1].page_content = <<"a", "1">>
       /\ r.op = "query" => r.run.chat_kind \in {"", "ok"}
       /\ mcq'.files \in {NoneList, Some(<<"b">>)}
       /\ mcq'.docs # <<>> => mcq'.docs[1].page_content = <<"a", "1">>

NextAccounting ==
    \/ mcq.pc = "idle" /\ query_docs_retrieve(1, MaxAccountingTurns) /\ AccountingScope
    \/ query_docs_save_user(1)
    \/ query_docs_fallback(1) /\ AccountingScope
    \/ query_docs_answer(1)
    \/ query_docs_save_assistant(1)
    \/ query_docs_read_history(1)
    \/ query_docs_suggest(1) /\ AccountingScope
    \/ mcq.pc = "idle" /\ generate_suggestions_api(1) /\ AccountingScope
    \/ request_ends(1)
    \/ Free(1) /\ generate_mcq_retrieve /\ AccountingScope
    \/ generate_mcq_select
    \/ generate_mcq_chat
    \/ generate_mcq_parse
    \/ mcq_request_ends

SpecAccounting == ConcurrentInit /\ [][NextAccounting]_vars

(***************************************************************************)
(* A busy session: answer requests that succeed, served by two workers,    *)
(* enough of them to fill the history window of one request with the rows  *)
(* of the others                                                           *)
(***************************************************************************)
\* number of requests the two workers serve
MaxWindowRequests == 4

\* the requests that are enumerated: every collaborator answers, the question
\* is asked of the whole session and the passages come in one order
WindowScope(p) ==
    LET r == req'[p]
    IN /\ r.query = <<"q", IF p = 1 THEN "1" ELSE "2">>
       /\ r.files = NoneList
       /\ r.pc # "raised"
       /\ ~r.hist_raised
       /\ r.top_docs # <<>> => r.top_docs[1].page_content = <<"a", "1">>
       /\ r.source_docs \in {<<>>, <<"a">>}
       /\ r.chat_kind \in {"", "ok"}
       /\ r.run.chat_kind \in {"", "ok"}
       /\ ~r.run.raised
       /\ r.run.called => r.run.top_docs # <<>> /\ r.run.top_docs[1].page_content = <<"a", "1">>

NextWindow ==
    \E p \in Procs :
        \/ query_docs_retrieve(p, MaxWindowRequests) /\ WindowScope(p)
        \/ query_docs_save_user(p) /\ WindowScope(p)
        \/ query_docs_answer(p) /\ WindowScope(p)
        \/ query_docs_save_assistant(p) /\ WindowScope(p)
        \/ query_docs_read_history(p) /\ WindowScope(p)
        \/ query_docs_suggest(p) /\ WindowScope(p)
        \/ request_ends(p)

SpecWindow == ConcurrentInit /\ [][NextWindow]_vars

(***************************************************************************)
(* Quiz context development: generate_mcq from the retrieved passages to   *)
(* the context of the prompt, qa.py:271-299, for passages of up to a few   *)
(* hundred characters                                                      *)
(***************************************************************************)
\* number of retrieved passages
MaxContextDocs == 11
\* length of the longest passage
MaxPassageChars == 700

ContextLetters == <<"x", "y", "z">>

\* the k-th retrieved passage, n characters long: its text depends on k and on
\* the place in it
LongPassage(src, k, n) ==
    [page_content |-> [i \in 1..n |-> ContextLetters[((i + k) % 3) + 1]], source |-> src]

PassageLengths == {1, ExcerptChars - 1, ExcerptChars, ExcerptChars + 1, MaxPassageChars}

PassageCounts == {1, 8, 9, MaxContextDocs}

\* passages of one length from one file, or from two files in turn; and
\* passages of growing lengths
ContextInputs ==
    {[k \in 1..n |-> LongPassage("a", k, len)] : n \in PassageCounts, len \in PassageLengths}
        \cup {[k \in 1..n |-> LongPassage(IF k % 2 = 1 THEN "a" ELSE "b", k, len)] :
                 n \in PassageCounts \ {1}, len \in PassageLengths}
        \cup {[k \in 1..n |-> LongPassage(IF k % 3 = 0 THEN "b" ELSE "a", k, ExcerptChars - 3 + k)] :
                 n \in PassageCounts}

\* the counts asked for: 0 stands for the default
ContextCounts == {-1, 0, 1, DefaultCount}

\* a request whose retrieval has returned these passages (line 251)
ContextInit ==
    /\ \E docs \in ContextInputs, num_questions \in ContextCounts :
         /\ mcq = begin_selection([IdleMCQ EXCEPT !.num_questions = num_questions,
                                                  !.count = effective_count(num_questions)], docs)
         /\ index = Range(docs)
         /\ session_files = {docs[i].source : i \in 1..Len(docs)}
    /\ history = <<>>
    /\ req = [p \in Procs |-> IdleReq]
    /\ turns = 0
    /\ p_resp = <<>>
    /\ p_out = <<>>
    /\ p_pc = "unused"
    /\ bal = NoBalance

ContextNext == generate_mcq_select

SpecContext == ContextInit /\ [][ContextNext]_vars

(***************************************************************************)
(* C9: the suggestion parser                                               *)
(***************************************************************************)
\* positions of the line breaks of s, and the k-th of them
NewlinesOf(s) == {i \in 1..Len(s) : s[i] = "\n"}

NthNewline(s, k) == CHOOSE i \in NewlinesOf(s) : Cardinality({j \in NewlinesOf(s) : j <= i}) = k

\* the k-th line of s, read off the positions of its line breaks
RefLine(s, k) ==
    LET n == Cardinality(NewlinesOf(s))
        from == IF k = 1 THEN 1 ELSE NthNewline(s, k - 1) + 1
        to == IF k <= n THEN NthNewline(s, k) - 1 ELSE Len(s)
    IN SubSeq(s, from, to)

RefLineCount(s) ==
    LET n == Cardinality(NewlinesOf(s))
    IN IF n = 0 THEN (IF s = <<>> THEN 0 ELSE 1)
       ELSE IF MaxOf(NewlinesOf(s)) = Len(s) THEN n ELSE n + 1

\* a line without what the parser is to remove: from its first character that is
\* no marker of the set M to its last character that is no whitespace
RefClean(line, M) ==
    LET first == {i \in 1..Len(line) : line[i] \notin M}
        last == {i \in 1..Len(line) : line[i] \notin Whitespace}
    IN IF first = {} THEN <<>> ELSE SubSeq(line, MinOf(first), MaxOf(last))

RefCleaned(s, M) ==
    SelectSeq([k \in 1..RefLineCount(s) |-> RefClean(RefLine(s, k), M)], LAMBDA c : c # <<>>)

\* the markers the claim lists: digits, period, dash, bullet, both parentheses, whitespace
ClaimedMarkers == EnumerationMarkers \cup {"(", "\n"}

ParsedAsReference(M) ==
    LET ref == RefCleaned(p_resp, M)
    IN /\ Len(p_out) <= 3
       /\ Len(p_out) = (IF Len(ref) < 3 THEN Len(ref) ELSE 3)
       /\ \A i \in 1..Len(p_out) : p_out[i] = ref[i]

\* C9 as stated: at most 3 suggestions, the first 3 non-empty cleaned lines in
\* response order, none empty and none starting with a digit, a period, a dash,
\* a bullet, an opening or closing parenthesis or whitespace.
C9_AsStated ==
    p_pc = "parsed" =>
        /\ ParsedAsReference(ClaimedMarkers)
        /\ \A i \in 1..Len(p_out) : p_out[i] # <<>> /\ p_out[i][1] \notin ClaimedMarkers

\* C9 amended: at most 3 suggestions, the first 3 non-empty cleaned lines in
\* response order, where cleaning removes surrounding whitespace and the leading
\* run of digits, periods, dashes, bullets, closing parentheses, spaces and tabs;
\* none is empty and none starts with one of those characters.  An opening
\* parenthesis is not removed.
C9_Parser ==
    p_pc = "parsed" =>
        /\ ParsedAsReference(EnumerationMarkers)
        /\ \A i \in 1..Len(p_out) : p_out[i] # <<>> /\ p_out[i][1] \notin EnumerationMarkers

\* a response of more than 3 non-empty cleaned lines whose first line has a
\* marker in front of its text: 3 suggestions are returned
C9_Witness ==
    /\ p_pc = "parsed"
    /\ Len(RefCleaned(p_resp, EnumerationMarkers)) > 3
    /\ Len(p_out) = 3
    /\ p_resp[1] = "1"
    /\ p_out[1] = <<"a">>

(***************************************************************************)
(* Claims about query_docs, upload_files and the suggestion generator      *)
(***************************************************************************)
\* the request in slot p has run its retrieval and got passages or none
Retrieved(p) ==
    /\ req[p].op = "query"
    /\ req[p].pc # "idle"
    /\ ~(req[p].pc = "raised" /\ req[p].raised_at = "retrieval")

\* the user row the request in slot p wrote
UserRowOf(p) ==
    \E i \in 1..Len(history) :
        /\ history[i].role = "user"
        /\ history[i].turn = req[p].turn
        /\ history[i].message = req[p].query

\* C1 as stated: the question of a query_docs request is in the history from
\* before its retrieval runs, so it is there whenever the request has started,
\* whatever fails later (retrieval included).
C1_AsStated == \A p \in Procs : (req[p].op = "query" /\ req[p].pc # "idle") => UserRowOf(p)

\* the request in slot p is past its append of the question
PastUserAppend(p) ==
    \/ req[p].pc \in {"saved_user", "answered", "saved_assistant", "read_history", "done"}
    \/ req[p].pc = "raised" /\ req[p].raised_at \in {"answer", "save_assistant"}

\* C1: query_docs appends the question after its retrieval has returned and
\* before anything else: the question is in the history once the append has
\* returned, so before any call of the backend, and it stays there when the
\* generation, the second append or the suggestion step fails; it is not in the
\* history while the retrieval runs, nor after the retrieval or the append
\* raised.
C1_QuestionAppendedAfterRetrieval ==
    \A p \in Procs :
        req[p].op = "query" =>
            /\ PastUserAppend(p) => UserRowOf(p)
            /\ (req[p].answer_calls > 0 \/ req[p].run.called) => UserRowOf(p)
            /\ (req[p].pc \in {"retrieved", "raised"} /\ ~PastUserAppend(p)) => ~UserRowOf(p)

\* the backend failed in transport, the answer is the inline error string, and
\* the question is in the history of the finished request
C1_Witness ==
    \E p \in Procs :
        /\ req[p].op = "query"
        /\ req[p].pc = "done"
        /\ req[p].chat_kind = "transport"
        /\ req[p].response.answer = TransportError
        /\ UserRowOf(p)

\* C2 as stated: the turns shown in the follow-up prompt of query_docs go from
\* the oldest to the newest, and each pairs a question with the answer that
\* was generated for that question.
C2_AsStated ==
    \A p \in Procs :
        (req[p].op = "query" /\ req[p].run.prompt.built) =>
            LET shown == req[p].run.prompt.turns
            IN /\ \A i \in 1..Len(shown) : shown[i].user_turn = shown[i].assistant_turn
               /\ \A i, j \in 1..Len(shown) : i < j => shown[i].user_turn < shown[j].user_turn

\* C3 as stated: query_docs never raises to its caller, whatever its external
\* calls do.
C3_AsStated == \A p \in Procs : req[p].op = "query" => req[p].pc # "raised"

\* C3: query_docs raises to its caller only when its retrieval raised, when an
\* append to the history raised, or when the backend's reply for the answer
\* made chat_get_text raise an error it does not catch; an empty retrieval, a
\* transport failure, a reply of an unexpected structure, a failed history read
\* and a failed suggestion generation all end in a returned QueryResponse.
C3_RaisesOnlyFromUncaughtSteps ==
    \A p \in Procs :
        req[p].op = "query" =>
            /\ req[p].pc = "raised" =>
                  /\ req[p].raised_at \in {"retrieval", "save_user", "answer", "save_assistant"}
                  /\ req[p].raised_at = "answer" => req[p].chat_kind = "type_error"
            /\ req[p].pc = "done" => req[p].response.kind = "QueryResponse"
            /\ (req[p].hist_raised \/ req[p].run.called) => req[p].pc = "done"
            /\ req[p].chat_kind \in {"transport", "structure"} =>
                  (req[p].pc = "raised" => req[p].raised_at = "save_assistant")

\* the backend failed in transport, the history read failed, and the request
\* returned its response
C3_Witness ==
    \E p \in Procs :
        /\ req[p].op = "query"
        /\ req[p].pc = "done"
        /\ req[p].chat_kind = "transport"
        /\ req[p].hist_raised
        /\ req[p].response.kind = "QueryResponse"
        /\ req[p].response.answer = TransportError

\* the error of the suggestion step of the request in slot p was raised: by the
\* generator, or by the history read before it
SuggestionStepRaised(p) == req[p].run.raised \/ req[p].hist_raised

\* the assistant row the request in slot p wrote
AssistantRowOf(p) ==
    CHOOSE m \in Range(history) : m.role = "assistant" /\ m.turn = req[p].turn

\* C4: when the suggestion step of query_docs or upload_files raises (the
\* generator, or the history read before it), the handler still returns: the
\* suggestions are empty, and the answer, the sources and the per-file results
\* are those computed before the step (the answer and sources persisted in the
\* assistant row, or the fallback answer without sources).
C4_SuggestionFailureIsolated ==
    \A p \in Procs :
        (req[p].op \in {"query", "upload"} /\ SuggestionStepRaised(p)) =>
            /\ req[p].pc = "done"
            /\ req[p].response.suggestions = <<>>
            /\ req[p].op = "query" =>
                 /\ req[p].response.kind = "QueryResponse"
                 /\ IF req[p].top_docs = <<>>
                    THEN /\ req[p].response.answer = FallbackAnswer
                         /\ req[p].response.source_docs = <<>>
                    ELSE /\ req[p].response.answer = AssistantRowOf(p).message
                         /\ req[p].response.source_docs = AssistantRowOf(p).sources
            /\ req[p].op = "upload" =>
                 /\ req[p].response.kind = "FileUploadResult"
                 /\ req[p].response.results = req[p].results
                 /\ req[p].results # <<>>

\* an answer was generated from passages, the generator raised, and the answer
\* is returned
C4_Witness ==
    \E p \in Procs :
        /\ req[p].op = "query"
        /\ req[p].pc = "done"
        /\ req[p].run.called
        /\ req[p].run.raised
        /\ req[p].top_docs # <<>>
        /\ req[p].response.answer = Strip(ListContent)
        /\ req[p].response.source_docs # <<>>
        /\ req[p].response.suggestions = <<>>

\* the request in slot p got no passages and has appended its question
OnFallbackPath(p) ==
    /\ Retrieved(p)
    /\ req[p].top_docs = <<>>
    /\ req[p].pc # "retrieved"
    /\ ~(req[p].pc = "raised" /\ req[p].raised_at = "save_user")

InScope(doc, files) == ~Truthy(files) \/ doc.source \in Range(files.items)

\* C6: the source list query_docs returns has no duplicates, holds exactly the
\* sources of the retrieved passages, and lies within the file filter when a
\* non-empty one is given.
C6_SourceDocs ==
    \A p \in Procs :
        (req[p].op = "query" /\ req[p].pc = "done") =>
            LET sd == req[p].response.source_docs
            IN /\ \A i, j \in 1..Len(sd) : sd[i] = sd[j] => i = j
               /\ Range(sd) = {d.source : d \in Range(req[p].top_docs)}
               /\ Truthy(req[p].files) => Range(sd) \subseteq Range(req[p].files.items)

\* two passages of file a were retrieved under a filter that leaves out file b
C6_Witness ==
    \E p \in Procs :
        /\ req[p].op = "query"
        /\ req[p].pc = "done"
        /\ Len(req[p].top_docs) = 2
        /\ req[p].files = Some(<<"a">>)
        /\ req[p].response.source_docs = <<"a">>
        /\ \E d \in index : d.source = "b"

AllPassages == ChunksOf("a") \cup ChunksOf("b")

\* C7: no predicate for an absent or empty file list; for one filename the
\* predicate holds of the passages of that file only; for two or more it holds
\* of a passage iff its source is one of them.  Checked on the retriever of the
\* suggestion generator and on what query_docs retrieves.
C7_FilterByCardinality ==
    \A p \in Procs :
        /\ req[p].run.called =>
             LET files == req[p].run.files
                 retriever == req[p].run.retriever
             IN /\ retriever.has_filter = Truthy(files)
                /\ \A d \in AllPassages : Matches(d, retriever) = InScope(d, files)
                /\ (Truthy(files) /\ Len(files.items) = 1) =>
                      \A d \in AllPassages : Matches(d, retriever) = (d.source = files.items[1])
        /\ Retrieved(p) => Range(req[p].top_docs) = {d \in index : InScope(d, req[p].files)}

\* a query over files a and b retrieves the passages of both, and its
\* suggestions ran under the same two-file scope
C7_Witness ==
    \E p \in Procs :
        /\ Retrieved(p)
        /\ req[p].files = Some(<<"a", "b">>)
        /\ {d.source : d \in Range(req[p].top_docs)} = {"a", "b"}
        /\ req[p].run.called
        /\ req[p].run.retriever.should = <<"a", "b">>

\* C8: the mode is decided by the history length alone, and retrieval and
\* prompt agree on it: with no history or fewer than 2 messages the retrieval
\* width is 20, the query is the broad probe and the prompt is the initial one;
\* with 2 or more messages the width is the default top-k and the prompt is the
\* follow-up one with its section of paired turns.
C8_ModeByHistoryLength ==
    \A p \in Procs :
        req[p].run.called =>
            LET run == req[p].run
                initial == ~run.history.present \/ Len(run.history.items) < 2
            IN /\ run.retriever.k = (IF initial THEN InitialK ELSE TOP_K)
               /\ initial => run.search_query = BroadProbe
               /\ run.prompt.built =>
                    /\ run.prompt.system = (IF initial THEN "initial" ELSE "follow-up")
                    /\ run.prompt.has_history = ~initial
                    /\ initial => run.prompt.turns = <<>>

\* a history of one message gives the initial prompt, built from passages
C8_Witness ==
    \E p \in Procs :
        /\ req[p].run.called
        /\ Len(req[p].run.history.items) = 1
        /\ req[p].run.prompt.built
        /\ req[p].run.prompt.system = "initial"
        /\ req[p].run.retriever.k = 20

\* C10: when the retrieval of the generator yields no passage, it returns the
\* empty list, builds no prompt and does not call the backend, in both modes.
C10_NoPassagesNoBackend ==
    \A p \in Procs :
        (req[p].run.called /\ ~req[p].run.raised /\ req[p].run.top_docs = <<>>) =>
            /\ req[p].run.result = <<>>
            /\ ~req[p].run.backend_called
            /\ ~req[p].run.prompt.built
            /\ req[p].pc = "done" => req[p].response.suggestions = <<>>

\* follow-up mode, a collection that holds passages, none in scope
C10_Witness ==
    \E p \in Procs :
        /\ req[p].pc = "done"
        /\ req[p].run.called
        /\ Len(req[p].run.history.items) >= 2
        /\ req[p].run.top_docs = <<>>
        /\ index # {}
        /\ req[p].response.suggestions = <<>>

(***************************************************************************)
(* The retrieval query of follow-up suggestions                            *)
(***************************************************************************)
\* the questions of the conversation, oldest first
UserMessagesOf(rows) ==
    LET users == SelectSeq(rows, LAMBDA m : m.role = "user")
    IN [i \in 1..Len(users) |-> users[i].message]

\* C11 as stated: in follow-up mode the retrieval query of the generator that
\* query_docs calls is the concatenation of the 3 most recent questions of the
\* conversation in the order they were asked, the broad probe when there is
\* none.
C11_AsStated ==
    \A p \in Procs :
        (req[p].op = "query" /\ req[p].pc = "done" /\ req[p].run.called
            /\ ~is_initial_suggestion(req[p].run.history)) =>
            req[p].run.search_query =
                (IF UserMessagesOf(history) = <<>> THEN BroadProbe
                 ELSE JoinWith(LastN(UserMessagesOf(history), 3), <<" ">>))

(***************************************************************************)
(* Transport failures of the backend on the answer path                    *)
(***************************************************************************)
\* the request in slot p asked the backend for its answer and the call failed
\* in transport
AnswerTransportFailed(p) ==
    req[p].op = "query" /\ req[p].answer_calls > 0 /\ req[p].chat_kind = "transport"

QuizRetrievalEmpty ==
    mcq.pc # "idle" /\ mcq.raised_at # "retrieval" /\ mcq.docs = <<>>

\* C13: when the retrieval of generate_mcq returns no passage the request ends
\* with HTTP 404, the backend is not called and no quiz, not even an empty
\* one, is returned; 404 is the answer to nothing else.
C13_EmptyRetrievalNotFound ==
    /\ QuizRetrievalEmpty =>
          /\ mcq.pc = "raised"
          /\ mcq.response.status = 404
          /\ ~mcq.response.returned
          /\ ~mcq.backend_called
          /\ mcq.selected_content = <<>>
    /\ mcq.response.status = 404 => QuizRetrievalEmpty

\* the session holds passages, the file filter leaves none, and the request
\* ended with 404
C13_Witness ==
    /\ QuizRetrievalEmpty
    /\ index # {}
    /\ Truthy(mcq.files)
    /\ mcq.response.status = 404
    /\ mcq.pc = "raised"

\* the request has been through the parsing of its response
QuizParsed == mcq.pc = "done" \/ (mcq.pc = "raised" /\ mcq.raised_at = "parse")

\* the value json.loads gives for the text handed to it
QuizValue == json_loads(mcq.cleaned)

\* C14: when the cleaned response does not parse as JSON, or parses to a value
\* that is not an array, generate_mcq ends with HTTP 500 and returns no quiz,
\* not a partial and not an empty one; a text that does not run from a "[" to
\* a "]" is such a text; and a quiz is returned only for a parsed array.
C14_ParseFailureIsExplicit ==
    QuizParsed =>
        /\ (~QuizValue.ok \/ QuizValue.value.type # "array") =>
              /\ mcq.pc = "raised"
              /\ mcq.response.status = 500
              /\ ~mcq.response.returned
              /\ mcq.response.mcqs = <<>>
        /\ ~(StartsWith(mcq.cleaned, <<"[">>) /\ EndsWith(mcq.cleaned, <<"]">>)) =>
              (mcq.pc = "raised" /\ mcq.response.status = 500)
        /\ mcq.response.returned => (QuizValue.ok /\ QuizValue.value.type = "array")

\* the response is one object, valid JSON and no array, and the request ended
\* with HTTP 500
C14_Witness ==
    /\ QuizParsed
    /\ mcq.cleaned = <<"o">>
    /\ QuizValue.ok
    /\ mcq.pc = "raised"
    /\ mcq.response.status = 500

\* the values of a text that is a flat array, in their order
ItemTokensOf(text) == SelectSeq(text, LAMBDA ch : ch \in ItemTokens)

\* C15 as stated: for every requested count the quiz returned has at most
\* count items (no item when the count is below 1), and they are the leading
\* items of the parsed array in order.
C15_AsStated ==
    (mcq.pc = "done" /\ mcq.response.returned) =>
        /\ Len(mcq.response.mcqs) <= (IF mcq.count > 0 THEN mcq.count ELSE 0)
        /\ \A i \in 1..Len(mcq.response.mcqs) :
              mcq.response.mcqs[i] = mcq_item(QuizValue.value.items[i]).item

\* the item built from an object that holds the fields of token tok
DefaultedItem(tok) ==
    [question |-> IF "question" \in FieldsOf(tok) THEN QuestionText ELSE <<>>,
     choices |-> IF "choices" \in FieldsOf(tok) THEN ChoiceMap ELSE {},
     correct_answer |-> IF "correct_answer" \in FieldsOf(tok) THEN CorrectLabel ELSE <<>>]

\* C16: an object of the array that lacks question, choices or correct_answer
\* gives an MCQItem with the empty string or the empty mapping for what it
\* lacks, and the request does not fail for it: when every item taken from the
\* array is an object, with or without its fields, the quiz is returned.
C16_AbsentFieldsDefaulted ==
    (QuizParsed /\ QuizValue.ok /\ QuizValue.value.type = "array") =>
        LET taken == slice_to(QuizValue.value.items, mcq.count)
            tokens == ItemTokensOf(mcq.cleaned)
        IN (\A i \in 1..Len(taken) : taken[i].type = "object") =>
              /\ mcq.pc = "done"
              /\ Len(mcq.response.mcqs) = Len(taken)
              /\ \A i \in 1..Len(taken) : mcq.response.mcqs[i] = DefaultedItem(tokens[i])

\* a quiz is returned whose first item has no choices and whose second has no
\* question
C16_Witness ==
    /\ mcq.pc = "done"
    /\ Len(mcq.response.mcqs) >= 2
    /\ mcq.response.mcqs[1].choices = {}
    /\ mcq.response.mcqs[1].question = QuestionText
    /\ mcq.response.mcqs[2].question = <<>>
    /\ mcq.response.mcqs[2].choices = ChoiceMap

\* where the search for the array starts in the response: after the line of
\* an opening fence, which is dropped whole
SearchStart(r) ==
    IF StartsWith(r, Fence)
    THEN LET breaks == {i \in 1..Len(r) : r[i] = "\n"}
         IN IF breaks = {} THEN Len(r) ELSE MinOf(breaks)
    ELSE 0

\* C17 as stated: when the response holds a "[" before its last "]", the text
\* handed to json.loads is the span of the response from its first "[" to its
\* last "]".
C17_AsStated ==
    QuizParsed =>
        LET opens == {i \in 1..Len(mcq.resp) : mcq.resp[i] = "["}
            closes == {i \in 1..Len(mcq.resp) : mcq.resp[i] = "]"}
        IN (opens # {} /\ closes # {} /\ MinOf(opens) < MaxOf(closes)) =>
              mcq.cleaned = SubSeq(mcq.resp, MinOf(opens), MaxOf(closes))

\* C17: the line of an opening fence is dropped with all it holds; when what
\* follows it (the whole response when it opens with no fence) holds a "["
\* before its last "]", the text handed to json.loads is the span from that
\* first "[" to that last "]": the prose and the fences around it are ignored.
C17_SpanOfRemainingText ==
    QuizParsed =>
        LET from == SearchStart(mcq.resp)
            opens == {i \in (from + 1)..Len(mcq.resp) : mcq.resp[i] = "["}
            closes == {i \in (from + 1)..Len(mcq.resp) : mcq.resp[i] = "]"}
        IN IF opens # {} /\ closes # {} /\ MinOf(opens) < MaxOf(closes)
           THEN mcq.cleaned = SubSeq(mcq.resp, MinOf(opens), MaxOf(closes))
           ELSE \A i \in 1..Len(mcq.cleaned) : mcq.cleaned[i] # "[" \/ \A j \in i..Len(mcq.cleaned) : mcq.cleaned[j] # "]"

\* a fenced array between prose: the array alone is parsed and the quiz returned
C17_Witness ==
    /\ mcq.pc = "done"
    /\ StartsWith(mcq.resp, Fence \o <<"j", "\n", "[">>)
    /\ EndsWith(mcq.resp, Fence \o <<"\n", "p">>)
    /\ mcq.cleaned = <<"[", "o", ",", "c", "]">>
    /\ Len(mcq.response.mcqs) > 0

\* the selection loop of the quiz request has been left
SelectionDone ==
    \/ mcq.pc \in {"selected", "responded", "done"}
    \/ mcq.pc = "raised" /\ mcq.raised_at \in {"chat", "parse"}

MinNat(a, b) == IF a < b THEN a ELSE b

\* the rank of passage i among the passages of its source, and the rank of its
\* source by first appearance
RankInSource(docs, i) == Cardinality({j \in 1..i : docs[j].source = docs[i].source})

SourceRank(docs, i) == MinOf({j \in 1..Len(docs) : docs[j].source = docs[i].source})

\* the passages sweep by sweep: by rank in their source, then by source
SweepOrder(docs) ==
    CHOOSE o \in Perms(1..Len(docs)) :
        \A a, b \in 1..Len(docs) :
            a < b =>
                \/ RankInSource(docs, o[a]) < RankInSource(docs, o[b])
                \/ /\ RankInSource(docs, o[a]) = RankInSource(docs, o[b])
                   /\ SourceRank(docs, o[a]) < SourceRank(docs, o[b])

RefBalanced(docs) ==
    LET n == Len(docs)
        rank == [i \in 1..n |-> RankInSource(docs, i)]
        srank == [i \in 1..n |-> SourceRank(docs, i)]
        eligible == {i \in 1..n : rank[i] <= max_chunks_per_file}
        pos == [i \in eligible |->
                   1 + Cardinality({j \in eligible :
                           rank[j] < rank[i] \/ (rank[j] = rank[i] /\ srank[j] < srank[i])})]
        at == [k \in 1..Cardinality(eligible) |-> CHOOSE i \in eligible : pos[i] = k]
    IN [k \in 1..MinNat(max_total_chunks, Cardinality(eligible)) |-> docs[at[k]].page_content]

ExampleContexts ==
    << <<"A", 1>>, <<"B", 1>>, <<"A", 2>>, <<"B", 2>>, <<"A", 3>>, <<"B", 3>>, <<"A", 4>>,
       <<"A", 5>>, <<"A", 6>>, <<"A", 7>>, <<"A", 8>>, <<"A", 9>>, <<"A", 10>> >>

\* C19: the contexts of initial suggestions are the reference round-robin of
\* the ranked list: at most 30, at most 10 of a source, each source's in their
\* retrieval order, and A1,B1,A2,B2,A3,B3,A4..A10 for A(15), B(3).
C19_BalancerIsRoundRobin ==
    bal.pc = "balanced" =>
        /\ bal.out = RefBalanced(bal.docs)
        /\ Len(bal.out) <= max_total_chunks
        /\ \A s \in 1..Len(BalanceSources) :
              LET of_source == SelectSeq(bal.out, LAMBDA c : c[1] = BalanceSources[s])
              IN /\ Len(of_source) <= max_chunks_per_file
                 /\ \A k \in 1..Len(of_source) : of_source[k][2] = k
        /\ bal.docs = ExampleDocs => bal.out = ExampleContexts

\* the example of the specification, balanced to 13 contexts
C19_Witness ==
    /\ bal.pc = "balanced"
    /\ bal.docs = ExampleDocs
    /\ Len(bal.out) = 13
    /\ bal.out[13] = <<"A", 10>>

\* four sources fill the global cap before they are empty
C19_GlobalCapReached ==
    /\ bal.pc = "balanced"
    /\ Len(bal.docs) > max_total_chunks
    /\ Len(bal.out) = max_total_chunks

(***************************************************************************)
(* C18: concurrent answer requests on one session                          *)
(***************************************************************************)
\* the places of the rows request t wrote with this role
RowsOf(t, role) == {i \in 1..Len(history) : history[i].turn = t /\ history[i].role = role}

\* the request a worker is serving has returned from its second append
PastAssistantAppend(p) ==
    \/ req[p].pc \in {"saved_assistant", "read_history"}
    \/ req[p].pc = "done" /\ req[p].top_docs # <<>>

\* the rows of the requests in flight are the ones they have appended: the
\* question once when the first append has returned and not before, the answer
\* once when the second has, with the texts the request holds
AppendedRowsPresent ==
    \A p \in Procs :
        req[p].op = "query" =>
            /\ Cardinality(RowsOf(req[p].turn, "user")) = IF PastUserAppend(p) THEN 1 ELSE 0
            /\ Cardinality(RowsOf(req[p].turn, "assistant")) = IF PastAssistantAppend(p) THEN 1 ELSE 0
            /\ \A i \in RowsOf(req[p].turn, "user") : history[i].message = req[p].query
            /\ \A i \in RowsOf(req[p].turn, "assistant") : history[i].message = req[p].answer

\* no request has two rows of a role, and its answer comes after its question
QuestionBeforeAnswer ==
    \A t \in 1..turns :
        /\ Cardinality(RowsOf(t, "user")) <= 1
        /\ Cardinality(RowsOf(t, "assistant")) <= 1
        /\ \A j \in RowsOf(t, "assistant") : \E i \in RowsOf(t, "user") : i < j

\* a step leaves the rows as they are or adds one row at the end
AppendOnly == history' = history \/ \E row \in {history'[Len(history')]} : history' = Append(history, row)

\* C18: however the steps of concurrent query_docs requests on one session
\* interleave, each append being one insert, no row is lost or overwritten: a
\* step only ever adds one row at the end, the history holds the question and
\* the answer of every request exactly once from the moment the request has
\* appended them, and the question of a request comes before its answer
C18_NoLostMessages == [](AppendedRowsPresent /\ QuestionBeforeAnswer) /\ [][AppendOnly]_vars

\* both requests have returned, and their rows interleave: the question of the
\* second lies between the question and the answer of the first, and the answer
\* of the second comes before the answer of the first
C18_Witness ==
    /\ \A p \in Procs : req[p].op = "query" /\ req[p].pc = "done" /\ PastAssistantAppend(p)
    /\ \E p, q \in Procs :
         \E i \in RowsOf(req[p].turn, "user"), j \in RowsOf(req[q].turn, "user"),
            k \in RowsOf(req[q].turn, "assistant"), l \in RowsOf(req[p].turn, "assistant") :
              i < j /\ j < k /\ k < l

(***************************************************************************)
(* C21: the quiz context                                                   *)
(***************************************************************************)
\* text a begins text b
IsPrefix(a, b) == Len(a) <= Len(b) /\ \A i \in 1..Len(a) : a[i] = b[i]

\* the character at place i of the excerpts written one after the other with
\* two line feeds between them, "" past the end
RECURSIVE CharOfJoined(_, _, _)
CharOfJoined(parts, k, i) ==
    IF k > Len(parts) THEN ""
    ELSE IF i <= Len(parts[k]) THEN parts[k][i]
    ELSE IF k = Len(parts) THEN ""
    ELSE IF i <= Len(parts[k]) + 2 THEN "\n"
    ELSE CharOfJoined(parts, k + 1, i - Len(parts[k]) - 2)

\* C21: when the selection of generate_mcq has ended, every selected excerpt
\* is the beginning of a retrieved passage, the whole passage or its first 600
\* characters, and the context of the prompt is at most 5000 characters long
\* and is the beginning of the selected excerpts joined by two line feeds
C21_ContextBounded ==
    mcq.pc = "selected" =>
        /\ \A k \in 1..Len(mcq.selected_content) :
              \E d \in 1..Len(mcq.docs) :
                 /\ IsPrefix(mcq.selected_content[k], mcq.docs[d].page_content)
                 /\ Len(mcq.selected_content[k]) = MinNat(ExcerptChars, Len(mcq.docs[d].page_content))
        /\ Len(mcq.combined_content) <= MAX_CONTEXT
        /\ \A i \in 1..Len(mcq.combined_content) :
              mcq.combined_content[i] = CharOfJoined(mcq.selected_content, 1, i)

\* ten excerpts cut to 600 characters are joined, and the context is cut to
\* 5000 characters in the ninth excerpt
C21_Witness ==
    /\ mcq.pc = "selected"
    /\ Len(mcq.selected_content) = 10
    /\ \A k \in 1..10 : Len(mcq.selected_content[k]) = ExcerptChars
    /\ \E d \in 1..Len(mcq.docs) : Len(mcq.docs[d].page_content) > ExcerptChars
    /\ Len(mcq.combined_content) = MAX_CONTEXT
    /\ CharOfJoined(mcq.selected_content, 1, MAX_CONTEXT + 1) # ""

(***************************************************************************)
(* C22: the order of the steps after a non-empty retrieval                 *)
(***************************************************************************)
\* the request of worker p has passages to answer from
NonEmptyPath(p) == req[p].op = "query" /\ req[p].top_docs # <<>>

\* the window worker p has read holds a message of its request with this role
InWindow(p, role) ==
    \E i \in 1..Len(req[p].hist.items) :
        req[p].hist.items[i].turn = req[p].turn /\ req[p].hist.items[i].role = role

\* the window has been read for the suggestions of an answered question
WindowRead(p) == NonEmptyPath(p) /\ req[p].hist.present /\ req[p].pc \in {"read_history", "done"}

\* C22 as stated: the window read for the suggestions of an answered question
\* always holds the question and the answer of the current request
C22_AsStated ==
    \A p \in Procs : WindowRead(p) => InWindow(p, "user") /\ InWindow(p, "assistant")

\* the rows other requests have appended after the row of worker p's request
\* with this role
ForeignRowsAfter(p, role) ==
    {j \in 1..Len(history) :
        /\ history[j].turn # req[p].turn
        /\ \E i \in RowsOf(req[p].turn, role) : i < j}

\* backend call, then the append of the answer with each source once, then the
\* read of the window, then the suggestions
StepsInOrder ==
    \A p \in Procs :
        NonEmptyPath(p) =>
            /\ req[p].pc = "saved_user" =>
                  req[p].answer_calls = 0 /\ RowsOf(req[p].turn, "assistant") = {}
            /\ req[p].pc = "answered" =>
                  /\ req[p].answer_calls = 1
                  /\ RowsOf(req[p].turn, "assistant") = {}
                  /\ ~req[p].hist.present /\ ~req[p].run.called
            /\ req[p].pc = "saved_assistant" =>
                  /\ req[p].answer_calls = 1
                  /\ \E i \in RowsOf(req[p].turn, "assistant") :
                        /\ history[i].message = req[p].answer
                        /\ Range(history[i].sources) = Range(filenames_of(req[p].top_docs))
                        /\ Len(history[i].sources) = Cardinality(Range(history[i].sources))
                  /\ ~req[p].hist.present /\ ~req[p].run.called
            /\ req[p].pc = "read_history" =>
                  /\ RowsOf(req[p].turn, "assistant") # {}
                  /\ req[p].hist.present /\ ~req[p].run.called
            /\ req[p].pc = "done" /\ ~req[p].hist_raised =>
                  /\ RowsOf(req[p].turn, "assistant") # {}
                  /\ req[p].run.called /\ req[p].run.history = req[p].hist

\* the read of the window by worker p: it holds the question exactly when
\* the other requests have appended at most 4 rows after it, and the answer
\* exactly when they have appended at most 5 rows after it
WindowAtRead ==
    \A p \in Procs :
        req[p].pc = "saved_assistant" /\ req'[p].pc = "read_history" =>
            /\ Len(req'[p].hist.items) = MinNat(HistoryLimit, Len(history))
            /\ InWindow(p, "user")' <=> Cardinality(ForeignRowsAfter(p, "user")) <= HistoryLimit - 2
            /\ InWindow(p, "assistant")' <=> Cardinality(ForeignRowsAfter(p, "assistant")) <= HistoryLimit - 1

\* C22: after a non-empty retrieval query_docs calls the backend, appends the
\* answer with each source once, reads the 6 newest rows of the session and
\* generates the suggestions from them, in this order; the rows read hold the
\* question of the request unless other requests on the session have appended
\* more than 4 rows after it, and its answer unless they have appended more
\* than 5 rows after it
C22_OrderAndWindow == []StepsInOrder /\ [][WindowAtRead]_vars

\* a window with the question and the answer of the request and, between
\* them, a row of another request
C22_Witness ==
    \E p \in Procs :
        /\ WindowRead(p)
        /\ req[p].pc = "done"
        /\ \E i, j, k \in 1..Len(req[p].hist.items) :
              /\ i < j /\ j < k
              /\ req[p].hist.items[i].turn = req[p].turn /\ req[p].hist.items[i].role = "assistant"
              /\ req[p].hist.items[j].turn # req[p].turn
              /\ req[p].hist.items[k].turn = req[p].turn /\ req[p].hist.items[k].role = "user"

(***************************************************************************)
(* C23: the turns build_suggestion_prompt extracts                         *)
(***************************************************************************)
\* a prompt has been built for worker 1 from a list of messages
PromptBuilt == req[1].op = "prompt" /\ req[1].pc = "done" /\ req[1].hist.present

\* the roles alternate, user first
Alternating(h) ==
    \A i \in 1..Len(h) : h[i].role = IF i % 2 = 1 THEN "user" ELSE "assistant"

\* the turns that hold the message at place i
TurnsHolding(shown, i) ==
    {k \in 1..Len(shown) : shown[k].user_turn = i \/ shown[k].assistant_turn = i}

\* C23 as stated, for its last part: every message of an alternating history
\* of two or more messages that starts with user is in exactly one turn
C23_AsStated ==
    PromptBuilt =>
        LET h == req[1].hist.items
            shown == req[1].run.prompt.turns
        IN Alternating(h) /\ Len(h) >= 2 =>
              \A i \in 1..Len(h) : Cardinality(TurnsHolding(shown, i)) = 1

\* C23: build_suggestion_prompt never fails on a list of messages; the turns
\* it shows are two adjacent messages each, a user message and the assistant
\* message after it, with their texts, in the order of the list and with no
\* message in two turns; from a list of two or more messages every user
\* message directly followed by an assistant message gives a turn, and every
\* other message is left out; so of an alternating list that starts with user
\* every message is in exactly one turn, except a last user message without
\* an answer, which is in none
C23_PairsOfAdjacentMessages ==
    PromptBuilt =>
        LET h == req[1].hist.items
            shown == req[1].run.prompt.turns
        IN /\ req[1].run.prompt.built
           /\ \A k \in 1..Len(shown) :
                 /\ shown[k].user_turn \in 1..(Len(h) - 1)
                 /\ shown[k].assistant_turn = shown[k].user_turn + 1
                 /\ h[shown[k].user_turn].role = "user"
                 /\ h[shown[k].assistant_turn].role = "assistant"
                 /\ shown[k].user = h[shown[k].user_turn].content
                 /\ shown[k].assistant = h[shown[k].assistant_turn].content
           /\ \A k \in 1..(Len(shown) - 1) : shown[k].assistant_turn < shown[k + 1].user_turn
           /\ \A i \in 1..Len(h) : Cardinality(TurnsHolding(shown, i)) <= 1
           /\ Len(h) >= 2 =>
                 \A i \in 1..(Len(h) - 1) :
                    h[i].role = "user" /\ h[i + 1].role = "assistant" =>
                       \E k \in 1..Len(shown) : shown[k].user_turn = i
           /\ Len(h) < 2 => shown = <<>>
           /\ Alternating(h) /\ Len(h) >= 2 =>
                 \A i \in 1..Len(h) :
                    Cardinality(TurnsHolding(shown, i)) = IF i = Len(h) /\ i % 2 = 1 THEN 0 ELSE 1

\* user, user, assistant, user, assistant: the first message is skipped and
\* the other four give two turns
C23_Witness ==
    /\ PromptBuilt
    /\ Len(req[1].hist.items) = 5
    /\ req[1].hist.items[1].role = "user"
    /\ Len(req[1].run.prompt.turns) = 2
    /\ req[1].run.prompt.turns[1].user_turn = 2
    /\ req[1].run.prompt.turns[2].assistant_turn = 5

(***************************************************************************)
(* C24: where the balancer is applied                                      *)
(***************************************************************************)
\* the texts of the passages as retrieved
RawContents(docs) == [i \in 1..Len(docs) |-> docs[i].page_content]

\* the generator has built a prompt for worker p
SuggestionPromptBuilt(p) == req[p].op = "generate" /\ req[p].run.backend_called

InitialMode(hist) == ~hist.present \/ Len(hist.items) < 2

\* C24: the contexts of the answer prompt of query_docs are the texts of the
\* retrieved passages, as many and in the same order; the context of a
\* follow-up suggestion prompt is these texts joined; the context of an
\* initial suggestion prompt is the balanced list joined
C24_BalancingOnlyForSurvey ==
    \A p \in Procs :
        /\ req[p].op = "query" /\ req[p].answer_calls > 0 =>
              /\ Len(req[p].contexts) = Len(req[p].top_docs)
              /\ \A i \in 1..Len(req[p].top_docs) : req[p].contexts[i] = req[p].top_docs[i].page_content
        /\ SuggestionPromptBuilt(p) =>
              req[p].run.prompt.context =
                  JoinWith(IF InitialMode(req[p].hist) THEN RefBalanced(req[p].run.top_docs)
                           ELSE RawContents(req[p].run.top_docs), DocumentSeparator)

\* an answer and a follow-up suggestion prompt whose contexts are the passages
\* as retrieved, 11 of one file and then 3 of another, where the balancer
\* gives another list
C24_Witness ==
    /\ req[1].op = "query" /\ req[1].answer_calls > 0
    /\ Len(req[1].contexts) > max_chunks_per_file
    /\ req[1].contexts # RefBalanced(req[1].top_docs)
    /\ SuggestionPromptBuilt(2)
    /\ ~InitialMode(req[2].hist)
    /\ Len(req[2].run.top_docs) = MaxSurveyGroup + 3
    /\ RawContents(req[2].run.top_docs) # RefBalanced(req[2].run.top_docs)

(***************************************************************************)
(* C25: an array wrapped in a code-fence block                             *)
(***************************************************************************)
\* the response is array X between this opening and this closing fence
Wrapped(op, X, cl) == mcq.resp = Strip(op.text \o X \o cl)

\* C25 as stated: an array wrapped in a code-fence block, the fences on lines
\* of their own or on the lines of the array, is repaired to the array
C25_AsStated ==
    QuizParsed =>
        \A op \in OpeningFences, X \in FenceArrays, cl \in ClosingFences :
            Wrapped(op, X, cl) => mcq.cleaned = X

\* C25: an array after an opening fence that has its line to itself, with a
\* language tag or without, is repaired to exactly the array, whether the
\* closing fence is absent, on its own line or at the end of the array's last
\* line; an array that starts on the line of the opening fence loses its
\* first line with the fence and is not repaired to itself, and nothing is
\* left of it when it is on one line
C25_FenceLinesRemoved ==
    QuizParsed =>
        \A op \in OpeningFences, X \in FenceArrays, cl \in ClosingFences :
            Wrapped(op, X, cl) =>
                IF op.own_line THEN mcq.cleaned = X
                ELSE /\ mcq.cleaned # X
                     /\ (\A i \in 1..Len(X) : X[i] # "\n") => mcq.cleaned = <<>>

\* a tagged opening fence on its own line and a closing fence at the end of
\* the array's line: the array is what json.loads gets, and the quiz is returned
C25_Witness ==
    /\ mcq.pc = "done"
    /\ mcq.resp = Fence \o <<"j", "\n", "[", "o", ",", "c", "]">> \o Fence
    /\ mcq.cleaned = <<"[", "o", ",", "c", "]">>

(***************************************************************************)
(* C26: what the three operations write                                    *)
(***************************************************************************)
\* the answer request of worker 1 has ended after its retrieval returned
QueryEnded ==
    /\ req[1].op = "query"
    /\ req[1].pc = "done" \/ (req[1].pc = "raised" /\ req[1].raised_at # "retrieval")

\* C26 as stated, for the calls whose inserts succeed: a query_docs call that
\* gets past its retrieval has appended one user message, and one assistant
\* message exactly when passages were retrieved
C26_AsStated ==
    QueryEnded /\ req[1].raised_at \notin {"save_user", "save_assistant"} =>
        /\ Cardinality(RowsOf(req[1].turn, "user")) = 1
        /\ Cardinality(RowsOf(req[1].turn, "assistant")) = IF req[1].top_docs # <<>> THEN 1 ELSE 0

\* the rows of an answer request that has ended
EndedRequestRows ==
    QueryEnded =>
        /\ req[1].pc = "done" =>
              /\ Cardinality(RowsOf(req[1].turn, "user")) = 1
              /\ Cardinality(RowsOf(req[1].turn, "assistant")) = IF req[1].top_docs # <<>> THEN 1 ELSE 0
              /\ req[1].top_docs = <<>> => \A i \in 1..Len(history) : history[i].message # FallbackAnswer
        /\ req[1].pc = "raised" =>
              /\ Cardinality(RowsOf(req[1].turn, "user")) =
                    IF req[1].raised_at \in {"answer", "save_assistant"} THEN 1 ELSE 0
              /\ RowsOf(req[1].turn, "assistant") = {}

\* a step leaves the file set and the rows there are; it adds a row only as
\* one of the two appends of query_docs, and no step of generate_mcq or of
\* the suggestion endpoint adds one
WritesOfAStep ==
    /\ session_files' = session_files
    /\ AppendOnly
    /\ mcq' # mcq => history' = history
    /\ (req[1].op = "suggestions" \/ req'[1].op = "suggestions") => history' = history
    /\ history' # history =>
          /\ req[1].op = "query"
          /\ history'[Len(history')].turn = req[1].turn
          /\ \/ /\ req[1].pc = "retrieved"
                /\ history'[Len(history')].role = "user"
                /\ history'[Len(history')].message = req[1].query
             \/ /\ req[1].pc = "answered"
                /\ req[1].top_docs # <<>>
                /\ history'[Len(history')].role = "assistant"
                /\ history'[Len(history')].message = req[1].answer

\* C26: a query_docs call that returns a response has appended one user
\* message, and one assistant message exactly when passages were retrieved:
\* the fallback answer is never appended; a call that raises after its
\* retrieval has appended no assistant message, and its user message exactly
\* when the backend call or the second append raised; the suggestion endpoint
\* and generate_mcq append nothing; no step of the three changes or removes a
\* row or changes the file set of the session
C26_HistoryAccounting == [](AppendedRowsPresent /\ EndedRequestRows) /\ [][WritesOfAStep]_vars

\* the second answer request of the session found no passage: its question is
\* the last row, after the question and the answer of the first
C26_Witness ==
    /\ req[1].op = "query" /\ req[1].pc = "done"
    /\ req[1].top_docs = <<>>
    /\ req[1].response.answer = FallbackAnswer
    /\ Len(history) = 4
    /\ history[3].role = "assistant"
    /\ history[4].role = "user" /\ history[4].turn = req[1].turn

(***************************************************************************)
(* C27: the mode of the suggestions                                        *)
(***************************************************************************)
\* the generator has been called for the request of worker p
GeneratorCalled(p) == req[p].run.called

\* the call was made by query_docs after an answer, with the history read
AfterAnswer(p) == req[p].op = "query" /\ req[p].top_docs # <<>> /\ ~req[p].hist_raised

\* the generator ran in initial mode: the larger k, and the initial prompt
\* when a prompt was built
RanInitial(p) ==
    /\ req[p].run.retriever.k = InitialK
    /\ req[p].run.search_query = BroadProbe
    /\ req[p].run.prompt.built => req[p].run.prompt.system = "initial"

RanFollowUp(p) ==
    /\ req[p].run.retriever.k = TOP_K
    /\ req[p].run.prompt.built =>
          /\ req[p].run.prompt.system = "follow-up"
          /\ req[p].run.prompt.context =
                JoinWith([i \in 1..Len(req[p].run.top_docs) |-> req[p].run.top_docs[i].page_content],
                         DocumentSeparator)

\* C27: when query_docs has answered from passages and read the history, it
\* passes the generator 2 messages or more, and the generator runs in
\* follow-up mode, with the default k and the passages as retrieved; the
\* generator runs in initial mode only for the fallback of query_docs, for the
\* suggestion endpoint and for an upload
C27_FollowUpAfterAnswer ==
    \A p \in Procs :
        GeneratorCalled(p) =>
            /\ AfterAnswer(p) =>
                  /\ req[p].run.history = req[p].hist
                  /\ Len(req[p].run.history.items) >= 2
                  /\ RanFollowUp(p)
            /\ ~AfterAnswer(p) =>
                  /\ \/ req[p].op \in {"suggestions", "upload"}
                     \/ req[p].op = "query" /\ req[p].top_docs = <<>>
                  /\ RanInitial(p)

\* an answer from passages, and its suggestions from a follow-up prompt built
\* on the three rows of the session: the upload, the question and the answer
C27_Witness ==
    /\ req[1].op = "query" /\ req[1].pc = "done"
    /\ req[1].top_docs # <<>>
    /\ GeneratorCalled(1)
    /\ Len(req[1].run.history.items) = 3
    /\ req[1].run.prompt.built
    /\ req[1].run.prompt.system = "follow-up"
    /\ req[1].response.suggestions # <<>>

(***************************************************************************)
(* C28: the backend fails while suggestions are generated                  *)
(***************************************************************************)
\* the generator has called the backend for worker p, and the call failed
SuggestionBackendFailed(p) == req[p].run.backend_called /\ req[p].run.chat_kind # "ok"

\* C28 as stated: when the backend fails during suggestion generation, the
\* generator raises nothing and returns a list that is not empty
C28_AsStated ==
    \A p \in Procs :
        SuggestionBackendFailed(p) => ~req[p].run.raised /\ req[p].run.result # <<>>

\* the inline error string of a failure chat_get_text catches
ErrorStringOf(kind) == IF kind = "transport" THEN TransportError ELSE StructureError

\* C28: when the call of the backend fails in transport, or its reply lacks
\* the fields read and the reading raises KeyError, IndexError or
\* AttributeError, the generator raises nothing and returns the inline error
\* string as its one suggestion, which the caller gets; when the reading of
\* the reply raises another error, the error leaves the generator and there
\* is no list
C28_InlineErrorIsSuggested ==
    \A p \in Procs :
        SuggestionBackendFailed(p) =>
            IF req[p].run.chat_kind \in {"transport", "structure"}
            THEN /\ ~req[p].run.raised
                 /\ req[p].run.result = <<ErrorStringOf(req[p].run.chat_kind)>>
                 /\ Len(req[p].run.result) <= MaxSuggestions
                 /\ req[p].op = "generate" =>
                       /\ req[p].pc = "done"
                       /\ req[p].response.suggestions = req[p].run.result
            ELSE /\ req[p].run.raised
                 /\ req[p].run.result = <<>>
                 /\ req[p].op = "generate" => req[p].pc = "raised"

\* a follow-up generation whose backend call failed in transport returns the
\* error string as its only suggestion
C28_Witness ==
    /\ req[1].op = "generate" /\ req[1].pc = "done"
    /\ req[1].run.backend_called
    /\ req[1].run.chat_kind = "transport"
    /\ req[1].run.prompt.system = "follow-up"
    /\ req[1].response.suggestions = <<TransportError>>

====
